---- MODULE Spec2Model ----
(***************************************************************************)
(* A model of the ADPF hint-session test app's frame pipeline:             *)
(*   - EventLoop (EventLoop.cpp / EventLoop.h): the double-queue worker,   *)
(*     queueWork, the destructor and getlooptid;                           *)
(*   - Renderer (Renderer.cpp / Renderer.h): the Choreographer callback,   *)
(*     the cascading stage schedule, the draw job and drawFramesSync.      *)
(* Threads are interleaved at the granularity of the source statements     *)
(* that touch shared state.  mStopping is a plain bool written by the      *)
(* destructor without the queue mutex; a read of it returns the value in   *)
(* memory at the time of the read, and the write is a step of its own, so  *)
(* every placement of the write relative to the worker's reads occurs.     *)
(***************************************************************************)
EXTENDS Integers, Sequences, FiniteSets, TLC

(* ------------------------------------------------------------------ *)
(* Bounds of the model                                                  *)
(* ------------------------------------------------------------------ *)
\* number of jobs handed to queueWork over the life of one EventLoop
MaxTasks == 3
\* threads that call queueWork
Producers == {"p1", "p2"}
\* threads that call getlooptid
Callers == {"c1", "c2", "c3"}

NoThread == "none"
Worker == "worker"
\* what gettid() returns on the worker thread, and an id that is not it
WorkerTid == "tid_worker"
GarbageTid == "tid_garbage"
NoTid == "nullopt"

VARIABLES
    \* ---- EventLoop ----
    mEventsQueue,       \* front queue: jobs loaded by queueWork
    mEventsProcessing,  \* back queue: jobs the worker is draining
    mQueueMutex,        \* holder of mQueueMutex, or NoThread
    mRunnerMutex,       \* holder of mRunnerMutex, or NoThread
    mStopping,          \* the stop flag
    mTidPromise,        \* value set on mTidPromise, or NoTid
    mTidFuture,         \* "valid" until get() has moved the state out
    mTid,               \* the cached optional<int>
    wpc,                \* the worker's position in EventLoop::run
    ppc, pjob,          \* each producer's position in queueWork and its job
    nextJob,            \* next fresh job id
    dpc,                \* the destructor's position
    cpc, cval, cret,    \* each getlooptid caller: position, local, result
    \* ---- history of the EventLoop (observations only) ----
    appended,           \* jobs in the order they were appended to the front queue
    started,            \* jobs in the order the worker started them
    finished,           \* jobs whose execution has finished
    queuedAtStop,       \* jobs queued and not started when mStopping was set
    committedAtStop,    \* the job the worker had already decided to run at that moment
    futureReads,        \* number of mTidFuture.get() calls made
    \* ---- Renderer ----
    framesRemaining_,   \* callbacks still to handle in the current batch
    framesDone_,        \* the promise held by the member: the id of the call that made it
    promiseState,       \* per promise: "pending", "set" or "broken" (abandoned unset)
    batchData_,         \* FrameBatchData: durations, intervals, vsyncs, selectedVsync
    lastStart_,         \* whether lastStart_ holds a value
    lastTarget_,        \* the target work duration in force
    posted,             \* vsync callbacks posted to Choreographer and not yet delivered
    stageQ, stageBusy,  \* loops_[level]: queued stage jobs, and the job being run
    drawQ, drawBusy,    \* drawLoop_: queued draw jobs, and the job being run
    mainThreadLock,     \* holder of drawFramesSync's static mutex, or NoThread
    apc, acall, aframes,\* each app thread: position in drawFramesSync, its call, its argument
    aresult,            \* each app thread: the durations its last getFrameStats read
    callCount,          \* drawFramesSync calls made so far
    crashed,            \* an exception escaped a worker thread (std::terminate)
    \* ---- history of the Renderer (observations only) ----
    updated,            \* <<frame, level>>: the stage update of that frame has completed
    drawDone,           \* frames whose draw job has completed
    \* ---- Renderer: construction and destruction ----
    rpc,                \* the Renderer's lifetime: position of its constructor / destructor
    initJob,            \* the initRenderer job on drawLoop_: "none", "queued", "running", "done"
    syncOnCompletion,   \* threadedInit's promise: "pending" or "set"
    headsCreated,       \* createHeads has filled latest_stage_models_
    tids_,              \* the worker thread ids collected by threadedInit
    glOps,              \* <<operation, thread>>: EGL/GL operations performed so far
    \* ---- Renderer: hint session and statistics ----
    platform,           \* what the performance-hint API of this device answers
    hintManager_,       \* "null" or "manager"
    hintSession_,       \* "null" or "session"
    baselineMedian_,    \* the baseline median used by the efficiency score
    results_,           \* the result map: key -> value
    supportedRet,       \* what the last startHintSession call returned, if any
    apiCalls,           \* session API functions called so far
    hintCallsMade,      \* Renderer hint methods invoked so far (observation only)
    handleClosed,       \* APerformanceHint_closeSession has been called on the session
    closedHandleCalls,  \* session API functions that were handed the closed session
    lastStats,          \* the last getFrameStats call: its inputs and its FrameStats
    \* ---- android_main and calibrate (main.cpp) ----
    mainPc,             \* android_main's position
    calibrateIter,      \* calibrate's locals
    heads,
    physicsIter,
    fixedHeads,
    duration,
    interval,
    interval0,          \* the interval calibrate was called with
    numHeads,           \* the argument of the last setNumHeads call
    physicsIterations_, \* the argument of the last setPhysicsIterations call
    calibratedTarget,   \* what calibrate returned
    failures,           \* messages passed to Utility::setFailure
    \* ---- regression calibration ----
    regOracle,          \* what measuring an iteration count returns on this run
    regRounding,        \* how the build turns the solved count into an integer
    regGoal,            \* the goal duration
    regPc,              \* where the regression calibration is
    regIter,            \* iterations of the loop made so far
    regSamples,         \* the calibration samples, <<iteration count, duration>>
    regFit,             \* the last fitted line, <<>> before the first fit
    regMeasured,        \* the duration measured by each iteration, in order
    regFailed,          \* whether calibration failure was reported
    \* ---- Model physics ----
    models,             \* the array applyPhysics works on
    initialModels,      \* the array as it was before the first call
    width,              \* the boundary's width
    height,             \* the boundary's height
    applyCalls,         \* applyPhysics calls made so far
    \* ---- pipeline data ----
    latest_stage_models_, \* per level, the StageState stored last
    stageInputs,        \* per level, the frames updated and the StageState each read
    handled             \* the frames whose callback was handled, in callback order

loopVars == <<mEventsQueue, mEventsProcessing, mQueueMutex, mRunnerMutex, mStopping,
              wpc, ppc, pjob, nextJob, dpc, appended, started, finished, queuedAtStop, committedAtStop>>
tidVars == <<mTidPromise, mTidFuture, mTid, cpc, cval, cret, futureReads>>
rendVars == <<framesRemaining_, framesDone_, promiseState, batchData_, lastStart_, lastTarget_,
              posted, stageQ, stageBusy, drawQ, drawBusy, mainThreadLock, apc, acall, aframes,
              aresult, callCount, crashed, updated, drawDone>>

lifeVarsButGl == <<rpc, initJob, syncOnCompletion, headsCreated, tids_>>
lifeVars == <<lifeVarsButGl, glOps>>
hintVarsButApi == <<platform, hintManager_, hintSession_, baselineMedian_, results_,
                    supportedRet, lastStats>>
closeVars == <<handleClosed, closedHandleCalls>>
hintVars == <<hintVarsButApi, apiCalls, hintCallsMade, closeVars>>
calVars == <<mainPc, calibrateIter, heads, physicsIter, fixedHeads, duration, interval,
             interval0, numHeads, physicsIterations_, calibratedTarget, failures>>
regVars == <<regOracle, regRounding, regGoal, regPc, regIter, regSamples, regFit,
             regMeasured, regFailed>>
physVars == <<models, initialModels, width, height, applyCalls>>
pipeVars == <<latest_stage_models_, stageInputs, handled>>
algoVars == <<calVars, regVars, physVars, pipeVars>>
\* everything android_main and calibrate do not touch directly
nonMainVars == <<loopVars, tidVars, rendVars, lifeVars, regVars, physVars, pipeVars>>
extVars == <<lifeVars, hintVars, algoVars>>

SeqToSet(s) == {s[i] : i \in 1..Len(s)}

(* ------------------------------------------------------------------ *)
(* EventLoop: condition variable                                        *)
(* ------------------------------------------------------------------ *)
\* mCV.notify_all(): a worker blocked in wait is made runnable; a worker
\* anywhere else is unaffected (the notification is not remembered).
NotifyNone(w) == w

NotifyAll(w) == IF w = "waiting" THEN "woken" ELSE w

\* the predicate of mCV.wait (EventLoop.cpp:44)
WaitPredicate(q, stopping) == q # <<>> \/ stopping

(* ------------------------------------------------------------------ *)
(* EventLoop::queueWork (EventLoop.cpp:25-31)                           *)
(* ------------------------------------------------------------------ *)
\* mEventsQueue->emplace(job): std::queue pushes at the back
EmplaceFront(q, job) == <<job>> \o q

Emplace(q, job) == Append(q, job)

\* a thread enters queueWork with a fresh job
PCall(p) ==
    /\ ppc[p] = "idle"
    /\ dpc = "alive"
    /\ nextJob <= MaxTasks
    /\ pjob' = [pjob EXCEPT ![p] = nextJob]
    /\ nextJob' = nextJob + 1
    /\ ppc' = [ppc EXCEPT ![p] = "lock"]
    /\ UNCHANGED <<mEventsQueue, mEventsProcessing, mQueueMutex, mRunnerMutex, mStopping,
                   wpc, dpc, appended, started, finished, queuedAtStop, committedAtStop>>
    /\ UNCHANGED <<tidVars, rendVars, extVars>>

\* std::scoped_lock lock(mQueueMutex)
PLock(p) ==
    /\ ppc[p] = "lock"
    /\ mQueueMutex = NoThread
    /\ mQueueMutex' = p
    /\ ppc' = [ppc EXCEPT ![p] = "emplace"]
    /\ UNCHANGED <<mEventsQueue, mEventsProcessing, mRunnerMutex, mStopping,
                   wpc, pjob, nextJob, dpc, appended, started, finished, queuedAtStop, committedAtStop>>
    /\ UNCHANGED <<tidVars, rendVars, extVars>>

\* mEventsQueue->emplace(std::move(job))
PEmplace(p) ==
    /\ ppc[p] = "emplace"
    /\ mEventsQueue' = Emplace(mEventsQueue, pjob[p])
    /\ appended' = Append(appended, pjob[p])
    /\ ppc' = [ppc EXCEPT ![p] = "unlock"]
    /\ UNCHANGED <<mEventsProcessing, mQueueMutex, mRunnerMutex, mStopping,
                   wpc, pjob, nextJob, dpc, started, finished, queuedAtStop, committedAtStop>>
    /\ UNCHANGED <<tidVars, rendVars, extVars>>

\* end of the scoped_lock block
PUnlock(p) ==
    /\ ppc[p] = "unlock"
    /\ mQueueMutex' = NoThread
    /\ ppc' = [ppc EXCEPT ![p] = "notify"]
    /\ UNCHANGED <<mEventsQueue, mEventsProcessing, mRunnerMutex, mStopping,
                   wpc, pjob, nextJob, dpc, appended, started, finished, queuedAtStop, committedAtStop>>
    /\ UNCHANGED <<tidVars, rendVars, extVars>>

\* mCV.notify_all()
PNotify(p) ==
    /\ ppc[p] = "notify"
    /\ wpc' = NotifyAll(wpc)
    /\ ppc' = [ppc EXCEPT ![p] = "idle"]
    /\ UNCHANGED <<mEventsQueue, mEventsProcessing, mQueueMutex, mRunnerMutex, mStopping,
                   pjob, nextJob, dpc, appended, started, finished, queuedAtStop, committedAtStop>>
    /\ UNCHANGED <<tidVars, rendVars, extVars>>

queueWork(p) == PCall(p) \/ PLock(p) \/ PEmplace(p) \/ PUnlock(p) \/ PNotify(p)

(* ------------------------------------------------------------------ *)
(* EventLoop::run (EventLoop.cpp:39-64)                                 *)
(* ------------------------------------------------------------------ *)
\* mTidPromise.set_value(gettid())
WStart ==
    /\ wpc = "start"
    /\ mTidPromise' = WorkerTid
    /\ wpc' = "loopTest"
    /\ UNCHANGED <<mEventsQueue, mEventsProcessing, mQueueMutex, mRunnerMutex, mStopping,
                   ppc, pjob, nextJob, dpc, appended, started, finished, queuedAtStop, committedAtStop>>
    /\ UNCHANGED <<mTidFuture, mTid, cpc, cval, cret, futureReads>>
    /\ UNCHANGED <<rendVars, extVars>>

\* while (!mStopping)
WLoopTest ==
    /\ wpc = "loopTest"
    /\ wpc' = IF mStopping THEN "exited" ELSE "lock"
    /\ UNCHANGED <<mEventsQueue, mEventsProcessing, mQueueMutex, mRunnerMutex, mStopping,
                   ppc, pjob, nextJob, dpc, appended, started, finished, queuedAtStop, committedAtStop>>
    /\ UNCHANGED <<tidVars, rendVars, extVars>>

\* std::unique_lock lock(mQueueMutex), and the re-acquisition when wait wakes
WLock ==
    /\ wpc \in {"lock", "woken"}
    /\ mQueueMutex = NoThread
    /\ mQueueMutex' = Worker
    /\ wpc' = "pred"
    /\ UNCHANGED <<mEventsQueue, mEventsProcessing, mRunnerMutex, mStopping,
                   ppc, pjob, nextJob, dpc, appended, started, finished, queuedAtStop, committedAtStop>>
    /\ UNCHANGED <<tidVars, rendVars, extVars>>

\* mCV.wait(lock, pred): the predicate is evaluated with the mutex held
WPred ==
    /\ wpc = "pred"
    /\ wpc' = IF WaitPredicate(mEventsQueue, mStopping) THEN "checkStop" ELSE "block"
    /\ UNCHANGED <<mEventsQueue, mEventsProcessing, mQueueMutex, mRunnerMutex, mStopping,
                   ppc, pjob, nextJob, dpc, appended, started, finished, queuedAtStop, committedAtStop>>
    /\ UNCHANGED <<tidVars, rendVars, extVars>>

\* the predicate was false: wait(lock) releases the mutex and blocks, atomically
WBlock ==
    /\ wpc = "block"
    /\ mQueueMutex' = NoThread
    /\ wpc' = "waiting"
    /\ UNCHANGED <<mEventsQueue, mEventsProcessing, mRunnerMutex, mStopping,
                   ppc, pjob, nextJob, dpc, appended, started, finished, queuedAtStop, committedAtStop>>
    /\ UNCHANGED <<tidVars, rendVars, extVars>>

\* a condition variable may wake without a notification
WSpuriousWake ==
    /\ wpc = "waiting"
    /\ wpc' = "woken"
    /\ UNCHANGED <<mEventsQueue, mEventsProcessing, mQueueMutex, mRunnerMutex, mStopping,
                   ppc, pjob, nextJob, dpc, appended, started, finished, queuedAtStop, committedAtStop>>
    /\ UNCHANGED <<tidVars, rendVars, extVars>>

\* if (mStopping) return;   (the unique_lock is released on return)
WCheckStop ==
    /\ wpc = "checkStop"
    /\ IF mStopping
          THEN /\ wpc' = "exited"
               /\ mQueueMutex' = NoThread
          ELSE /\ wpc' = "swap"
               /\ UNCHANGED mQueueMutex
    /\ UNCHANGED <<mEventsQueue, mEventsProcessing, mRunnerMutex, mStopping,
                   ppc, pjob, nextJob, dpc, appended, started, finished, queuedAtStop, committedAtStop>>
    /\ UNCHANGED <<tidVars, rendVars, extVars>>

\* if (!mEventsQueue->empty()) mEventsQueue.swap(mEventsProcessing); then unlock
SwapAlways(front, back) == <<back, front>>

SwapQueues(front, back) == IF front # <<>> THEN <<back, front>> ELSE <<front, back>>

WSwap ==
    /\ wpc = "swap"
    /\ mEventsQueue' = SwapQueues(mEventsQueue, mEventsProcessing)[1]
    /\ mEventsProcessing' = SwapQueues(mEventsQueue, mEventsProcessing)[2]
    /\ mQueueMutex' = NoThread
    /\ wpc' = "innerTest"
    /\ UNCHANGED <<mRunnerMutex, mStopping,
                   ppc, pjob, nextJob, dpc, appended, started, finished, queuedAtStop, committedAtStop>>
    /\ UNCHANGED <<tidVars, rendVars, extVars>>

\* while (!mEventsProcessing->empty() && !mStopping)
DrainIgnoringStop(back, stopping) == back # <<>>

\* an inner loop that gives up before the in-flight queue is empty
DrainOne(back, stopping) == Len(back) > 1 /\ ~stopping

DrainCondition(back, stopping) == back # <<>> /\ ~stopping

WInnerTest ==
    /\ wpc = "innerTest"
    /\ wpc' = IF DrainCondition(mEventsProcessing, mStopping) THEN "run" ELSE "loopTest"
    /\ UNCHANGED <<mEventsQueue, mEventsProcessing, mQueueMutex, mRunnerMutex, mStopping,
                   ppc, pjob, nextJob, dpc, appended, started, finished, queuedAtStop, committedAtStop>>
    /\ UNCHANGED <<tidVars, rendVars, extVars>>

\* std::scoped_lock lock{mRunnerMutex}; (mEventsProcessing->front())();  -- the job starts
WRun ==
    /\ wpc = "run"
    /\ mRunnerMutex = NoThread
    /\ mRunnerMutex' = Worker
    /\ started' = Append(started, Head(mEventsProcessing))
    /\ wpc' = "running"
    /\ UNCHANGED <<mEventsQueue, mEventsProcessing, mQueueMutex, mStopping,
                   ppc, pjob, nextJob, dpc, appended, finished, queuedAtStop, committedAtStop>>
    /\ UNCHANGED <<tidVars, rendVars, extVars>>

\* the job returns; the runner lock is released
WFinish ==
    /\ wpc = "running"
    /\ mRunnerMutex' = NoThread
    /\ finished' = finished \cup {Head(mEventsProcessing)}
    /\ wpc' = "pop"
    /\ UNCHANGED <<mEventsQueue, mEventsProcessing, mQueueMutex, mStopping,
                   ppc, pjob, nextJob, dpc, appended, started, queuedAtStop, committedAtStop>>
    /\ UNCHANGED <<tidVars, rendVars, extVars>>

\* a pop that leaves the job in the queue
PopNothing(back) == back

\* mEventsProcessing->pop()
PopFront(back) == Tail(back)

WPop ==
    /\ wpc = "pop"
    /\ mEventsProcessing' = PopFront(mEventsProcessing)
    /\ wpc' = "innerTest"
    /\ UNCHANGED <<mEventsQueue, mQueueMutex, mRunnerMutex, mStopping,
                   ppc, pjob, nextJob, dpc, appended, started, finished, queuedAtStop, committedAtStop>>
    /\ UNCHANGED <<tidVars, rendVars, extVars>>

\* the worker's steps after publishing its id
run ==
    \/ WLoopTest \/ WLock \/ WPred \/ WBlock \/ WCheckStop \/ WSwap
    \/ WInnerTest \/ WRun \/ WFinish \/ WPop

(* ------------------------------------------------------------------ *)
(* EventLoop::~EventLoop (EventLoop.cpp:33-37)                          *)
(* ------------------------------------------------------------------ *)
\* jobs in either queue that the worker has not started
QueuedNotStarted == (SeqToSet(mEventsQueue) \cup SeqToSet(mEventsProcessing)) \ SeqToSet(started)

\* mStopping = true;  the owner destroys the loop when no queueWork call is in progress
DSetStopping ==
    /\ dpc = "alive"
    /\ \A p \in Producers : ppc[p] = "idle"
    /\ mStopping' = TRUE
    /\ queuedAtStop' = QueuedNotStarted
    /\ committedAtStop' = IF wpc = "run" THEN {Head(mEventsProcessing)} ELSE {}
    /\ dpc' = "notify"
    /\ UNCHANGED <<mEventsQueue, mEventsProcessing, mQueueMutex, mRunnerMutex,
                   wpc, ppc, pjob, nextJob, appended, started, finished>>
    /\ UNCHANGED <<tidVars, rendVars, extVars>>

\* mCV.notify_all()
DNotify ==
    /\ dpc = "notify"
    /\ wpc' = NotifyAll(wpc)
    /\ dpc' = "join"
    /\ UNCHANGED <<mEventsQueue, mEventsProcessing, mQueueMutex, mRunnerMutex, mStopping,
                   ppc, pjob, nextJob, appended, started, finished, queuedAtStop, committedAtStop>>
    /\ UNCHANGED <<tidVars, rendVars, extVars>>

\* mRunner->join() returns once run has returned
DJoin ==
    /\ dpc = "join"
    /\ wpc = "exited"
    /\ dpc' = "joined"
    /\ UNCHANGED <<mEventsQueue, mEventsProcessing, mQueueMutex, mRunnerMutex, mStopping,
                   wpc, ppc, pjob, nextJob, appended, started, finished, queuedAtStop, committedAtStop>>
    /\ UNCHANGED <<tidVars, rendVars, extVars>>

Destructor == DSetStopping \/ DNotify \/ DJoin

(* ------------------------------------------------------------------ *)
(* EventLoop::getlooptid (EventLoop.cpp:66-71)                          *)
(* ------------------------------------------------------------------ *)
\* if (!mTid.has_value())
CCheck(c) ==
    /\ cpc[c] = "idle"
    /\ cpc' = [cpc EXCEPT ![c] = IF mTid = NoTid THEN "get" ELSE "return"]
    /\ UNCHANGED <<mTidPromise, mTidFuture, mTid, cval, cret, futureReads>>
    /\ UNCHANGED <<loopVars, rendVars, extVars>>

\* mTidFuture.get(): blocks until the promise is set, returns the value and
\* leaves the future without a shared state.  get() on a future without a
\* shared state is undefined: the call fails (future_error or a crash) or
\* yields an arbitrary value.
FutureGetOutcomes ==
    IF mTidFuture = "valid" THEN {mTidPromise} ELSE {"fail", WorkerTid, GarbageTid}

CGet(c) ==
    /\ cpc[c] = "get"
    /\ mTidFuture = "valid" => mTidPromise # NoTid
    /\ \E v \in FutureGetOutcomes :
          /\ cval' = [cval EXCEPT ![c] = v]
          /\ cpc' = [cpc EXCEPT ![c] = IF v = "fail" THEN "failed" ELSE "assign"]
    /\ mTidFuture' = "consumed"
    /\ futureReads' = futureReads + 1
    /\ UNCHANGED <<mTidPromise, mTid, cret>>
    /\ UNCHANGED <<loopVars, rendVars, extVars>>

\* mTid = <the value get() returned>
CAssign(c) ==
    /\ cpc[c] = "assign"
    /\ mTid' = cval[c]
    /\ cpc' = [cpc EXCEPT ![c] = "return"]
    /\ UNCHANGED <<mTidPromise, mTidFuture, cval, cret, futureReads>>
    /\ UNCHANGED <<loopVars, rendVars, extVars>>

\* return *mTid
CReturn(c) ==
    /\ cpc[c] = "return"
    /\ cret' = [cret EXCEPT ![c] = mTid]
    /\ cpc' = [cpc EXCEPT ![c] = "done"]
    /\ UNCHANGED <<mTidPromise, mTidFuture, mTid, cval, futureReads>>
    /\ UNCHANGED <<loopVars, rendVars, extVars>>

getlooptid(c) == CCheck(c) \/ CGet(c) \/ CAssign(c) \/ CReturn(c)

(* ------------------------------------------------------------------ *)
(* Renderer: constants and inputs                                       *)
(* ------------------------------------------------------------------ *)
kStages == 3
Levels == 0..(kStages - 1)

\* the worker threads of the renderer's loops and the ids gettid() gives them:
\* loops_[i]'s worker is thread i, drawLoop_'s worker is thread kStages
DrawThread == "draw"
LoopTid(level) == level
DrawTid == kStages

\* largest argument of drawFramesSync, and number of drawFramesSync calls
MaxFrames == 2
MaxCalls == 2
\* most candidate timelines in one Choreographer callback
MaxVsyncs == 2
\* threads that call drawFramesSync
AppThreads == {"app", "app2"}
\* frame times, timeline deadlines and target durations the platform hands in
FrameTimes == {10}
Deadlines == {11, 13}
Targets == {1, 2, 3}

\* fromFrameCallbackData (Renderer.cpp:472-489): index i of the code is position i+1
MakeVsyncs(ds) == [i \in 1..Len(ds) |-> [index |-> i - 1, deadlineNanos |-> ds[i]]]

\* the platform lists a callback's frame timelines in order of increasing deadline
Increasing(ds) == \A i \in 1..(Len(ds) - 1) : ds[i] < ds[i + 1]

VsyncInputs ==
    {[frameTimeNanos |-> ft, vsyncs |-> MakeVsyncs(ds)] :
        ft \in FrameTimes,
        ds \in {d \in UNION {[1..n -> Deadlines] : n \in 1..MaxVsyncs} : Increasing(d)}}

(* ------------------------------------------------------------------ *)
(* The performance-hint session (Renderer.cpp:373-423)                  *)
(* ------------------------------------------------------------------ *)
\* what the device's hint API answers: whether APerformanceHint_getManager
\* gives a manager, the preferred update rate, and whether createSession
\* gives a session or null.  These are properties of the device.
Rates == {0, 1}
Platforms == [manager : BOOLEAN, rate : Rates, creates : BOOLEAN]

\* Renderer::isHintSessionRunning
IsRunningAlways(session) == TRUE

isHintSessionRunning(session) == session # "null"

\* the record of the session API calls made behind isHintSessionRunning()
\* with a session that APerformanceHint_closeSession has already been given
PassedWhenClosed(session, closed, calls, name) ==
    IF isHintSessionRunning(session) /\ closed THEN calls \cup {name} ELSE calls

(* ------------------------------------------------------------------ *)
(* getClosestCallbackToTarget (Renderer.cpp:459-470)                    *)
(* ------------------------------------------------------------------ *)
Abs(x) == IF x < 0 THEN -x ELSE x

\* std::abs(data.vsyncs[i].deadlineNanos - data.frameTimeNanos - target)
VsyncDiff(target, data, i) ==
    Abs(data.vsyncs[i].deadlineNanos - data.frameTimeNanos - target)

\* if (diff < min_diff)
DiffNotGreater(diff, min_diff) == diff <= min_diff

DiffLess(diff, min_diff) == diff < min_diff

\* the for loop from position i on, with the running min_i and min_diff
RECURSIVE ClosestScan(_, _, _, _, _)
ClosestScan(target, data, i, min_i, min_diff) ==
    IF i > Len(data.vsyncs)
       THEN min_i
       ELSE IF DiffLess(VsyncDiff(target, data, i), min_diff)
               THEN ClosestScan(target, data, i + 1, i, VsyncDiff(target, data, i))
               ELSE ClosestScan(target, data, i + 1, min_i, min_diff)

getClosestCallbackToTarget(target, data) ==
    data.vsyncs[ClosestScan(target, data, 2, 1, VsyncDiff(target, data, 1))]

(* ------------------------------------------------------------------ *)
(* Renderer::recursiveSchedule / stackSchedule (Renderer.h:264-280)     *)
(* Each EventLoop of the renderer is its FIFO of queued jobs and the    *)
(* job its worker is running.                                           *)
(* ------------------------------------------------------------------ *)
\* loops_[level].queueWork(<job running fn(level, data)>)
RecursiveScheduleAll(queues, level, job) ==
    [l \in Levels |-> IF l <= level THEN Append(queues[l], job) ELSE queues[l]]

RecursiveSchedule(queues, level, job) == [queues EXCEPT ![level] = Append(@, job)]

\* recursiveSchedule(fn, loops_.size() - 1, startData)
StackSchedule(queues, job) == RecursiveSchedule(queues, kStages - 1, job)

(* ------------------------------------------------------------------ *)
(* std::promise<bool> framesDone_                                       *)
(* ------------------------------------------------------------------ *)
\* framesDone_ = std::promise<bool>(): the promise held before is destroyed;
\* if it was never satisfied its shared state becomes ready with broken_promise
AbandonPromise(ps, old) == IF ps[old] = "pending" THEN [ps EXCEPT ![old] = "broken"] ELSE ps

(* ------------------------------------------------------------------ *)
(* Renderer::choreographerCallback (Renderer.cpp:498-564)               *)
(* Runs on the thread that polls the looper, inside ALooper_pollOnce.   *)
(* targets_ and wakeupMethod_ (lines 505-513) are left out: nothing     *)
(* modelled here reads them.                                            *)
(* ------------------------------------------------------------------ *)
\* a decrement without the test
DecrementAlways(n) == n - 1

\* a callback that records no selected vsync
SkipSelected(selected, intendedVsync) == selected

\* batchData_.selectedVsync.push_back(startState.intendedVsync);
PushSelected(selected, intendedVsync) == Append(selected, intendedVsync)

\* if (framesRemaining_ > 0) --framesRemaining_;
DecrementRemaining(n) == IF n > 0 THEN n - 1 ELSE n

choreographerCallback(t, data) ==
    LET remain == DecrementRemaining(framesRemaining_)
        intendedVsync == getClosestCallbackToTarget(lastTarget_, data)
        frame == <<acall[t], Len(batchData_.vsyncs) + 1>>
        job == [frame |-> frame, remain |-> remain, intendedVsync |-> intendedVsync]
    IN  /\ framesRemaining_' = remain
        /\ batchData_' = [batchData_ EXCEPT
                            !.vsyncs = Append(@, data),
                            !.intervals = IF lastStart_ THEN Append(@, frame) ELSE @,
                            !.selectedVsync = PushSelected(@, intendedVsync)]
        /\ lastStart_' = TRUE
        \* this callback is consumed; postCallback() if (framesRemaining_ > 0)
        /\ posted' = IF remain > 0 THEN posted ELSE posted - 1
        /\ stageQ' = StackSchedule(stageQ, job)
        /\ handled' = Append(handled, frame)

(* ------------------------------------------------------------------ *)
(* Renderer::drawFramesSync (Renderer.cpp:566-596)                      *)
(* ------------------------------------------------------------------ *)
\* framesDone_ = std::promise<bool>(); auto frameFuture = framesDone_.get_future();
ACall(t) ==
    /\ ~crashed
    /\ rpc = "constructed"
    /\ apc[t] = "idle"
    /\ callCount < MaxCalls
    /\ \E frames \in 0..MaxFrames : aframes' = [aframes EXCEPT ![t] = frames]
    /\ callCount' = callCount + 1
    /\ acall' = [acall EXCEPT ![t] = callCount + 1]
    /\ promiseState' = AbandonPromise(promiseState, framesDone_)
    /\ framesDone_' = callCount + 1
    /\ apc' = [apc EXCEPT ![t] = "lock"]
    /\ UNCHANGED <<framesRemaining_, batchData_, lastStart_, lastTarget_, posted, stageQ,
                   stageBusy, drawQ, drawBusy, mainThreadLock, aresult, crashed, updated,
                   drawDone>>
    /\ UNCHANGED <<loopVars, tidVars, extVars>>

\* std::scoped_lock lock(mainThreadLock)
ALock(t) ==
    /\ ~crashed
    /\ apc[t] = "lock"
    /\ mainThreadLock = NoThread
    /\ mainThreadLock' = t
    /\ apc' = [apc EXCEPT ![t] = "reset"]
    /\ UNCHANGED <<framesRemaining_, framesDone_, promiseState, batchData_, lastStart_,
                   lastTarget_, posted, stageQ, stageBusy, drawQ, drawBusy, acall, aframes,
                   aresult, callCount, crashed, updated, drawDone>>
    /\ UNCHANGED <<loopVars, tidVars, extVars>>

EmptyBatch == [durations |-> <<>>, intervals |-> <<>>, vsyncs |-> <<>>, selectedVsync |-> <<>>]

\* batchData_ = {}; framesRemaining_ = frames; postCallback();
AReset(t) ==
    /\ ~crashed
    /\ apc[t] = "reset"
    /\ batchData_' = EmptyBatch
    /\ framesRemaining_' = aframes[t]
    /\ posted' = posted + 1
    /\ apc' = [apc EXCEPT ![t] = "poll"]
    /\ UNCHANGED <<framesDone_, promiseState, lastStart_, lastTarget_, stageQ, stageBusy,
                   drawQ, drawBusy, mainThreadLock, acall, aframes, aresult, callCount,
                   crashed, updated, drawDone>>
    /\ UNCHANGED <<loopVars, tidVars, extVars>>

\* ALooper_pollOnce delivers a posted vsync callback on the polling thread
APollCallback(t) ==
    /\ ~crashed
    /\ apc[t] = "poll"
    /\ posted > 0
    /\ \E data \in VsyncInputs : choreographerCallback(t, data)
    /\ UNCHANGED <<framesDone_, promiseState, lastTarget_, stageBusy, drawQ, drawBusy,
                   mainThreadLock, apc, acall, aframes, aresult, callCount, crashed, updated,
                   drawDone>>
    /\ UNCHANGED <<latest_stage_models_, stageInputs>>
    /\ UNCHANGED <<loopVars, tidVars, lifeVars, hintVars, calVars, regVars, physVars>>

\* frameFuture.wait_for(0s) == ready: leave the loop
FutureReady(ps, call) == ps[call] # "pending"

APollReady(t) ==
    /\ ~crashed
    /\ apc[t] = "poll"
    /\ FutureReady(promiseState, acall[t])
    /\ apc' = [apc EXCEPT ![t] = "stats"]
    /\ UNCHANGED <<framesRemaining_, framesDone_, promiseState, batchData_, lastStart_,
                   lastTarget_, posted, stageQ, stageBusy, drawQ, drawBusy, mainThreadLock,
                   acall, aframes, aresult, callCount, crashed, updated, drawDone>>
    /\ UNCHANGED <<loopVars, tidVars, extVars>>

\* return getFrameStats(batchData_, testName); the scoped_lock is released
AStats(t) ==
    /\ ~crashed
    /\ apc[t] = "stats"
    /\ aresult' = [aresult EXCEPT ![t] =
                     <<[call |-> acall[t], frames |-> aframes[t],
                        durations |-> batchData_.durations]>>]
    /\ mainThreadLock' = NoThread
    /\ apc' = [apc EXCEPT ![t] = "idle"]
    /\ UNCHANGED <<framesRemaining_, framesDone_, promiseState, batchData_, lastStart_,
                   lastTarget_, posted, stageQ, stageBusy, drawQ, drawBusy, acall, aframes,
                   callCount, crashed, updated, drawDone>>
    /\ UNCHANGED <<loopVars, tidVars, extVars>>

drawFramesSync(t) == ACall(t) \/ ALock(t) \/ AReset(t) \/ APollCallback(t) \/ APollReady(t) \/ AStats(t)

\* Renderer::updateTargetWorkDuration (Renderer.cpp:402-411), called between batches:
\* lastTarget_ = target; if (isHintSessionRunning()) APerformanceHint_updateTargetWorkDuration
updateTargetWorkDuration(t) ==
    /\ ~crashed
    /\ rpc = "constructed"
    /\ apc[t] = "idle"
    /\ callCount < MaxCalls
    /\ \E target \in Targets : target # lastTarget_ /\ lastTarget_' = target
    /\ apiCalls' = IF isHintSessionRunning(hintSession_)
                      THEN apiCalls \cup {"updateTargetWorkDuration"}
                      ELSE apiCalls
    /\ hintCallsMade' = hintCallsMade \cup {"updateTargetWorkDuration"}
    /\ closedHandleCalls' = PassedWhenClosed(hintSession_, handleClosed, closedHandleCalls, "updateTargetWorkDuration")
    /\ UNCHANGED handleClosed
    /\ UNCHANGED <<framesRemaining_, framesDone_, promiseState, batchData_, lastStart_,
                   posted, stageQ, stageBusy, drawQ, drawBusy, mainThreadLock, apc, acall,
                   aframes, aresult, callCount, crashed, updated, drawDone>>
    /\ UNCHANGED <<loopVars, tidVars, lifeVars, hintVarsButApi, algoVars>>

(* ------------------------------------------------------------------ *)
(* The stage job of recursiveSchedule, run by the worker of loops_[level] *)
(* ------------------------------------------------------------------ *)
\* fn(level, dataInner): state.stages[level] = updateModels(...);
\* latest_stage_models_[level] = state.stages[level];   (Renderer.cpp:538-541)
\* a StageState is named by the update that produced it: <<call, frame, level>>,
\* and <<0, 0, level>> is what createHeads left (Renderer.cpp:351-365)
HeadsState(level) == <<0, 0, level>>
UpdatedState(frame, level) == <<frame[1], frame[2], level>>

\* an update that does not store its output back
KeepLatest(latest, level, output) == latest
\* latest_stage_models_[level] = state.stages[level];
StoreLatest(latest, level, output) == [latest EXCEPT ![level] = output]

StageUpdate(level) ==
    /\ ~crashed
    /\ stageBusy[level] = <<>>
    /\ stageQ[level] # <<>>
    /\ stageBusy' = [stageBusy EXCEPT ![level] = <<Head(stageQ[level])>>]
    /\ stageQ' = [stageQ EXCEPT ![level] = Tail(@)]
    /\ updated' = updated \cup {<<Head(stageQ[level]).frame, level>>}
    /\ stageInputs' = [stageInputs EXCEPT ![level] =
                          Append(@, [frame |-> Head(stageQ[level]).frame,
                                     input |-> latest_stage_models_[level],
                                     thread |-> LoopTid(level)])]
    /\ latest_stage_models_' =
           StoreLatest(latest_stage_models_, level,
                       UpdatedState(Head(stageQ[level]).frame, level))
    /\ UNCHANGED handled
    /\ UNCHANGED <<framesRemaining_, framesDone_, promiseState, batchData_, lastStart_,
                   lastTarget_, posted, drawQ, drawBusy, mainThreadLock, apc, acall, aframes,
                   aresult, callCount, crashed, drawDone>>
    /\ UNCHANGED <<loopVars, tidVars, lifeVars, hintVars, calVars, regVars, physVars>>

\* level == 0: drawLoop_.queueWork(<draw job>)            (Renderer.cpp:544-561)
\* level > 0:  recursiveSchedule(fn, level - 1, dataInner)  (Renderer.h:271-273)
StageForward(level) ==
    /\ ~crashed
    /\ stageBusy[level] # <<>>
    /\ IF level = 0
          THEN /\ drawQ' = Append(drawQ, stageBusy[level][1])
               /\ UNCHANGED stageQ
          ELSE /\ stageQ' = RecursiveSchedule(stageQ, level - 1, stageBusy[level][1])
               /\ UNCHANGED drawQ
    /\ stageBusy' = [stageBusy EXCEPT ![level] = <<>>]
    /\ UNCHANGED <<framesRemaining_, framesDone_, promiseState, batchData_, lastStart_,
                   lastTarget_, posted, drawBusy, mainThreadLock, apc, acall, aframes,
                   aresult, callCount, crashed, updated, drawDone>>
    /\ UNCHANGED <<loopVars, tidVars, extVars>>

(* ------------------------------------------------------------------ *)
(* The draw job, run by the worker of drawLoop_ (Renderer.cpp:545-560)  *)
(* ------------------------------------------------------------------ *)
\* if (remain == 0) framesDone_.set_value(true);
\* set_value on a promise that already holds a value throws; nothing catches it
DrawBegin ==
    /\ ~crashed
    /\ initJob \in {"none", "done"}
    /\ drawBusy = <<>>
    /\ drawQ # <<>>
    /\ drawBusy' = <<Head(drawQ)>>
    /\ drawQ' = Tail(drawQ)
    /\ IF Head(drawQ).remain = 0
          THEN IF promiseState[framesDone_] = "pending"
                  THEN /\ promiseState' = [promiseState EXCEPT ![framesDone_] = "set"]
                       /\ UNCHANGED crashed
                  ELSE /\ crashed' = TRUE
                       /\ UNCHANGED promiseState
          ELSE UNCHANGED <<promiseState, crashed>>
    /\ UNCHANGED <<framesRemaining_, framesDone_, batchData_, lastStart_, lastTarget_, posted,
                   stageQ, stageBusy, mainThreadLock, apc, acall, aframes, aresult, callCount,
                   updated, drawDone>>
    /\ UNCHANGED <<loopVars, tidVars, extVars>>

\* render(state), which starts with updateRenderArea();
\* batchData_.durations.push_back(duration); ...; swapBuffers(state);
DrawRender ==
    /\ ~crashed
    /\ drawBusy # <<>>
    /\ glOps' = glOps \cup {<<"updateRenderArea", DrawThread>>, <<"render", DrawThread>>,
                             <<"swapBuffers", DrawThread>>}
    /\ batchData_' = [batchData_ EXCEPT !.durations = Append(@, drawBusy[1].frame)]
    /\ drawDone' = drawDone \cup {drawBusy[1].frame}
    /\ drawBusy' = <<>>
    /\ UNCHANGED <<framesRemaining_, framesDone_, promiseState, lastStart_, lastTarget_,
                   posted, stageQ, stageBusy, drawQ, mainThreadLock, apc, acall, aframes,
                   aresult, callCount, crashed, updated>>
    \* if (isHintSessionRunning()) reportActualWorkDuration(duration);
    /\ apiCalls' = IF isHintSessionRunning(hintSession_)
                      THEN apiCalls \cup {"reportActualWorkDuration"}
                      ELSE apiCalls
    /\ closedHandleCalls' = PassedWhenClosed(hintSession_, handleClosed, closedHandleCalls,
                                             "reportActualWorkDuration")
    /\ UNCHANGED <<loopVars, tidVars, lifeVarsButGl, hintVarsButApi, hintCallsMade,
                   handleClosed, algoVars>>

(* ------------------------------------------------------------------ *)
(* Renderer::Renderer -> threadedInit (Renderer.h:133-142,              *)
(* Renderer.cpp:215-226), initRenderer (228-316) and ~Renderer (115-129) *)
(* ------------------------------------------------------------------ *)
\* drawLoop_.queueWork([this, &syncOnCompletion]() { initRenderer(syncOnCompletion); });
ThreadedInitQueue(t) ==
    /\ rpc = "new"
    /\ initJob' = "queued"
    /\ rpc' = "waitInit"
    /\ UNCHANGED <<syncOnCompletion, headsCreated, tids_, glOps>>
    /\ UNCHANGED <<loopVars, tidVars, rendVars, hintVars, algoVars>>

\* the draw loop's worker runs initRenderer: EGL display, surface and context,
\* shader, GL state, then createHeads()              (Renderer.cpp:228-314)
InitRendererSetup ==
    /\ initJob = "queued"
    /\ drawBusy = <<>>
    /\ initJob' = "running"
    /\ glOps' = glOps \cup {<<"initRenderer", DrawThread>>}
    /\ headsCreated' = TRUE
    /\ UNCHANGED <<rpc, syncOnCompletion, tids_>>
    /\ UNCHANGED <<loopVars, tidVars, rendVars, hintVars, algoVars>>

\* syncOnCompletion.set_value(true), the last statement of initRenderer (line 315)
InitRendererSignal ==
    /\ initJob = "running"
    /\ syncOnCompletion' = "set"
    /\ initJob' = "done"
    /\ UNCHANGED <<rpc, headsCreated, tids_, glOps>>
    /\ UNCHANGED <<loopVars, tidVars, rendVars, hintVars, algoVars>>

\* syncOnCompletion.get_future().get() returns once the promise holds a value
InitNotAwaited(promise) == TRUE

InitCompleted(promise) == promise = "set"

\* for (i < loops_.size()) tids_.push_back(loops_[i].getlooptid());
\* tids_.push_back(drawLoop_.getlooptid());
DrawLoopFirst(tids) == <<DrawTid>> \o [i \in 1..kStages |-> LoopTid(i - 1)]

CollectTids(tids) == tids \o [i \in 1..kStages |-> LoopTid(i - 1)] \o <<DrawTid>>

ThreadedInitFinish(t) ==
    /\ rpc = "waitInit"
    /\ InitCompleted(syncOnCompletion)
    /\ tids_' = CollectTids(tids_)
    /\ rpc' = "constructed"
    /\ UNCHANGED <<initJob, syncOnCompletion, headsCreated, glOps>>
    /\ UNCHANGED <<loopVars, tidVars, rendVars, hintVars, algoVars>>

threadedInit(t) == ThreadedInitQueue(t) \/ ThreadedInitFinish(t)

\* ~Renderer: eglMakeCurrent(none), eglDestroyContext, eglDestroySurface,
\* eglTerminate, executed by the thread that destroys the Renderer
RendererDestructor(t) ==
    /\ rpc = "constructed"
    /\ apc[t] = "idle"
    /\ glOps' = glOps \cup {<<"eglTeardown", t>>}
    /\ rpc' = "destroyed"
    /\ UNCHANGED <<initJob, syncOnCompletion, headsCreated, tids_>>
    /\ UNCHANGED <<loopVars, tidVars, rendVars, hintVars, algoVars>>

\* a Renderer whose constructor has not started
InitUnconstructed ==
    /\ rpc = "new"
    /\ initJob = "none"
    /\ syncOnCompletion = "pending"
    /\ headsCreated = FALSE
    /\ tids_ = <<>>
    /\ glOps = {}

\* a Renderer whose constructor has returned
InitConstructed ==
    /\ rpc = "constructed"
    /\ initJob = "done"
    /\ syncOnCompletion = "set"
    /\ headsCreated = TRUE
    /\ tids_ = CollectTids(<<>>)
    /\ glOps = {<<"initRenderer", DrawThread>>}

(* ------------------------------------------------------------------ *)
(* Renderer::startHintSession, reportActualWorkDuration,                *)
(* setBaselineMedian (Renderer.cpp:373-400, 433-435)                    *)
(* ------------------------------------------------------------------ *)
\* durations handed to reportActualWorkDuration and found in a batch
Durations == {1, 2, 3}
\* longest batch handed to getFrameStats
MaxBatch == 3
\* medians handed to setBaselineMedian
Baselines == {2}

\* results_[key] = value
SetResult(results, key, value) == (key :> value) @@ results

\* bool supported = preferredRate > 0 && hintSession_ != nullptr;
SupportedByRateOnly(preferredRate, session) == preferredRate > 0

Supported(preferredRate, session) == preferredRate > 0 /\ session # "null"

\* the value APerformanceHint_getPreferredUpdateRateNanos returns; with a null
\* manager the call reads through a null pointer and any value may come back
PreferredRates(manager) == IF manager = "null" THEN Rates ELSE {platform.rate}

startHintSession(target) ==
    LET manager == IF hintManager_ = "null" /\ platform.manager THEN "manager" ELSE hintManager_
    IN  /\ ~crashed
        /\ rpc = "constructed"
        /\ hintManager_' = manager
        /\ \E preferredRate \in PreferredRates(manager) :
              LET create == preferredRate > 0 /\ hintSession_ = "null" /\ manager # "null"
                  session == IF create
                                THEN IF platform.creates THEN "session" ELSE "null"
                                ELSE hintSession_
                  supported == Supported(preferredRate, session)
              IN  /\ lastTarget_' = IF create THEN target ELSE lastTarget_
                  /\ hintSession_' = session
                  /\ apiCalls' = IF create THEN apiCalls \cup {"createSession"} ELSE apiCalls
                  /\ results_' = SetResult(SetResult(results_, "preferredRate", preferredRate),
                                           "isHintSessionSupported",
                                           IF supported THEN "true" ELSE "false")
                  /\ supportedRet' = <<supported>>
        /\ hintCallsMade' = hintCallsMade \cup {"startHintSession"}
        /\ UNCHANGED closeVars
        /\ UNCHANGED <<platform, baselineMedian_, lastStats>>
        /\ UNCHANGED <<framesRemaining_, framesDone_, promiseState, batchData_, lastStart_,
                       posted, stageQ, stageBusy, drawQ, drawBusy, mainThreadLock, apc, acall,
                       aframes, aresult, callCount, crashed, updated, drawDone>>
        /\ UNCHANGED <<loopVars, tidVars, lifeVars, algoVars>>

\* if (isHintSessionRunning()) APerformanceHint_reportActualWorkDuration(hintSession_, duration);
\* actual is the duration argument
reportActualWorkDuration(actual) ==
    /\ ~crashed
    /\ rpc = "constructed"
    /\ apiCalls' = IF isHintSessionRunning(hintSession_)
                      THEN apiCalls \cup {"reportActualWorkDuration"}
                      ELSE apiCalls
    /\ hintCallsMade' = hintCallsMade \cup {"reportActualWorkDuration"}
    /\ closedHandleCalls' = PassedWhenClosed(hintSession_, handleClosed, closedHandleCalls, "reportActualWorkDuration")
    /\ UNCHANGED handleClosed
    /\ UNCHANGED <<loopVars, tidVars, rendVars, lifeVars, hintVarsButApi, algoVars>>

\* Renderer::closeHintSession (Renderer.cpp:421-423), on a Renderer that has a
\* session: APerformanceHint_closeSession(hintSession_); the member is left
\* as it is
closeHintSession ==
    /\ ~crashed
    /\ rpc = "constructed"
    /\ hintSession_ # "null"
    /\ apiCalls' = apiCalls \cup {"closeSession"}
    /\ hintCallsMade' = hintCallsMade \cup {"closeHintSession"}
    /\ closedHandleCalls' = IF handleClosed
                                THEN closedHandleCalls \cup {"closeSession"}
                                ELSE closedHandleCalls
    /\ handleClosed' = TRUE
    /\ UNCHANGED hintVarsButApi
    /\ UNCHANGED <<loopVars, tidVars, rendVars, lifeVars, algoVars>>

\* baselineMedian_ = median
setBaselineMedian(median) ==
    /\ ~crashed
    /\ rpc = "constructed"
    /\ baselineMedian_ # median
    /\ baselineMedian_' = median
    /\ UNCHANGED <<platform, hintManager_, hintSession_, results_, supportedRet, lastStats,
                   apiCalls, hintCallsMade, closeVars>>
    /\ UNCHANGED <<loopVars, tidVars, rendVars, lifeVars, algoVars>>

(* ------------------------------------------------------------------ *)
(* Renderer::getFrameStats (Renderer.cpp:602-670) and getMedian (437-441) *)
(* An optional, and a field the code leaves unassigned, is <<>> when     *)
(* empty and <<v>> when it holds v; a quotient of doubles is the pair    *)
(* <<numerator, denominator>>.  The deviation and the deadline medians   *)
(* (lines 606-613, 619-630, 637) are not part of the FrameStats modelled. *)
(* ------------------------------------------------------------------ *)
\* the lower middle element for an even number of values
getMedianLower(values) == SortSeq(values, LAMBDA a, b : a < b)[((Len(values) - 1) \div 2) + 1]

\* std::sort(values); return values[values.size() / 2];
getMedian(values) == SortSeq(values, LAMBDA a, b : a < b)[(Len(values) \div 2) + 1]

\* T getMedian(std::vector<T> values): the vector is taken by value, so the
\* sort works on a copy and the caller's vector is as it was
CallerValuesAfter(values) == values

\* std::accumulate(durations.begin(), durations.end(), 0.0)
RECURSIVE Accumulate(_)
Accumulate(values) == IF values = <<>> THEN 0 ELSE Head(values) + Accumulate(Tail(values))

\* if (isHintSessionRunning() && duration > lastTarget_) ++dropCount;
ExceedsOrEquals(d, target) == d >= target

Exceeds(d, target) == d > target

RECURSIVE DropCount(_, _, _)
DropCount(durations, running, target) ==
    IF durations = <<>>
       THEN 0
       ELSE (IF running /\ Exceeds(Head(durations), target) THEN 1 ELSE 0)
            + DropCount(Tail(durations), running, target)

MinOf(a, b) == IF b < a THEN b ELSE a

getFrameStats(batchData, session, target, baseline) ==
    LET durations == batchData.durations
        n == Len(durations)
        sum == Accumulate(durations)
        running == isHintSessionRunning(session)
        dropCount == DropCount(durations, running, target)
    IN  [actualTargetDuration |-> target,
         medianWorkDuration |-> IF n > 0 THEN <<getMedian(durations)>> ELSE <<>>,
         medianFrameInterval |-> IF Len(batchData.intervals) > 0
                                    THEN <<getMedian(batchData.intervals)>> ELSE <<>>,
         exceededCount |-> IF running THEN <<dropCount>> ELSE <<>>,
         exceededFraction |-> IF running THEN << <<dropCount, n>> >> ELSE <<>>,
         efficiency |-> IF running THEN << <<sum, n * MinOf(target, baseline)>> >> ELSE <<>>]

\* the batches handed to getFrameStats: every frame has a duration and every
\* frame but the first an interval
BatchInputs ==
    {[durations |-> d, intervals |-> IF d = <<>> THEN <<>> ELSE Tail(d),
      vsyncs |-> <<>>, selectedVsync |-> <<>>] :
        d \in UNION {[1..n -> Durations] : n \in 0..MaxBatch}}

\* getFrameStats keeps nothing between calls, so one call is followed
GetFrameStats(batchData) ==
    /\ ~crashed
    /\ rpc = "constructed"
    /\ lastStats = <<>>
    /\ lastStats' = <<[batchData |-> batchData, session |-> hintSession_,
                       target |-> lastTarget_,
                       batchAfter |-> [batchData EXCEPT
                                         !.durations = CallerValuesAfter(@),
                                         !.intervals = CallerValuesAfter(@)],
                       stats |-> getFrameStats(batchData, hintSession_, lastTarget_,
                                               baselineMedian_)]>>
    /\ UNCHANGED <<platform, hintManager_, hintSession_, baselineMedian_, results_,
                   supportedRet, apiCalls, hintCallsMade, closeVars>>
    /\ UNCHANGED <<loopVars, tidVars, rendVars, lifeVars, algoVars>>

(* ------------------------------------------------------------------ *)
(* calibrate (main.cpp:121-199) and android_main (main.cpp:289-340),    *)
(* from the point where startHintSession has returned true.  Time is    *)
(* counted in ticks of 1/8 ms.  drawFrames (main.cpp:67-113) is the     *)
(* measurement: it hands back a median work duration and a median frame *)
(* interval.  The "calibration_<i>_*" entries that calibrate adds to the *)
(* result map every round record history only and are left out.        *)
(* ------------------------------------------------------------------ *)
\* static_cast<std::chrono::nanoseconds>(1ms).count(), and 1000us, in ticks
Ms == 8
\* while (calibrateIter < 10 && ...)
kCalibrateRounds == 10
initialHeads == 5
maxHeads == 40
\* largest physics iteration count from which a further round is explored
MaxPhysicsIter == 64

\* what drawFrames can measure
CalDurations == {8, 100, 200}
CalIntervals == {133, 800}
DrawFramesStats == [medianWorkDuration : CalDurations, medianFrameInterval : CalIntervals]

MaxOf(a, b) == IF a < b THEN b ELSE a

\* const int64_t intervalMax = interval + 1ms
IntervalMax(i) == i + Ms
\* const int64_t goal = interval * 0.75
Goal(i) == (i * 3) \div 4
\* goal -/+ std::max(interval / 8, 1000us)
DurationMin(i) == Goal(i) - MaxOf(i \div 8, Ms)
DurationMax(i) == Goal(i) + MaxOf(i \div 8, Ms)

\* the condition of calibrate's while loop (main.cpp:146-148)
LoopCondition ==
    /\ calibrateIter < kCalibrateRounds
    /\ \/ /\ duration < DurationMin(interval0) \/ duration > DurationMax(interval0)
          /\ physicsIter > 0
       \/ /\ interval > IntervalMax(interval0)
          /\ heads > 1
          /\ ~fixedHeads

\* heads = std::min(maxHeads, heads); heads = std::max(heads, 1);
NoClamp(h) == h

ClampHeads(h) == MaxOf(MinOf(maxHeads, h), 1)

\* the if (!fixedHeads) block (main.cpp:161-177): the new heads and fixedHeads.
\* A double converted to int is truncated; the quotients are taken exactly.
AdjustHeads(h, d, i, i0) ==
    IF i > IntervalMax(i0) /\ h > 1
       THEN [heads |-> ClampHeads((IntervalMax(i0) * h) \div i), fixedHeads |-> FALSE]
       ELSE IF d < Goal(i0) \div 8 /\ h < maxHeads
               THEN [heads |-> ClampHeads(IF Goal(i0) >= 2 * 8 * d
                                             THEN 2 * h
                                             ELSE (Goal(i0) * h) \div (8 * d)),
                     fixedHeads |-> FALSE]
               ELSE [heads |-> ClampHeads(h), fixedHeads |-> TRUE]

\* int(std::sqrt(static_cast<double>(goal) / duration) * physicsIter)
SqrtScaled(goal, d, p) ==
    CHOOSE k \in 0..(goal * p + 1) :
        k * k * d <= goal * p * p /\ (k + 1) * (k + 1) * d > goal * p * p

\* the block with the square-root term alone below the band
AdjustPhysicsIterSqrtOnly(p, d, i0) ==
    IF d > DurationMax(i0)
       THEN MinOf(p - 1, (Goal(i0) * p) \div d)
       ELSE IF d < DurationMin(i0)
               THEN SqrtScaled(Goal(i0), d, p)
               ELSE p

\* the if (fixedHeads) block (main.cpp:178-188)
AdjustPhysicsIter(p, d, i0) ==
    IF d > DurationMax(i0)
       THEN MinOf(p - 1, (Goal(i0) * p) \div d)
       ELSE IF d < DurationMin(i0)
               THEN MaxOf(p + 3, SqrtScaled(Goal(i0), d, p))
               ELSE p

\* android_main: setNumHeads(1); interval = drawFrames(...).medianFrameInterval;
\* then the entry of calibrate up to its while loop
MainMeasureInterval ==
    /\ mainPc = "interval"
    /\ \E stats \in DrawFramesStats :
          /\ interval0' = stats.medianFrameInterval
          /\ interval' = stats.medianFrameInterval
          /\ results_' = SetResult(results_, "median_frame_interval", stats.medianFrameInterval)
    /\ heads' = initialHeads
    /\ numHeads' = initialHeads
    /\ duration' = 0
    /\ calibrateIter' = 0
    /\ physicsIter' = 1
    /\ fixedHeads' = FALSE
    /\ mainPc' = "calibrate"
    /\ UNCHANGED <<physicsIterations_, calibratedTarget, failures>>
    /\ UNCHANGED <<platform, hintManager_, hintSession_, baselineMedian_, supportedRet,
                   lastStats, apiCalls, hintCallsMade, closeVars>>
    /\ UNCHANGED nonMainVars

\* one pass of calibrate's while loop
CalibrateRound ==
    /\ mainPc = "calibrate"
    /\ LoopCondition
    /\ physicsIter <= MaxPhysicsIter
    /\ \E stats \in DrawFramesStats :
          LET d == stats.medianWorkDuration
              i == stats.medianFrameInterval
              adjusted == IF fixedHeads
                             THEN [heads |-> heads, fixedHeads |-> TRUE]
                             ELSE AdjustHeads(heads, d, i, interval0)
              p == IF adjusted.fixedHeads
                      THEN AdjustPhysicsIter(physicsIter, d, interval0)
                      ELSE physicsIter
          IN  /\ duration' = d
              /\ interval' = i
              /\ heads' = adjusted.heads
              /\ fixedHeads' = adjusted.fixedHeads
              /\ physicsIter' = p
              /\ numHeads' = adjusted.heads
              /\ physicsIterations_' = p
    /\ calibrateIter' = calibrateIter + 1
    /\ UNCHANGED <<mainPc, interval0, calibratedTarget, failures>>
    /\ UNCHANGED <<hintVars, nonMainVars>>

\* the loop is left: the final results are recorded and duration is returned
CalibrateReturn ==
    /\ mainPc = "calibrate"
    /\ ~LoopCondition
    /\ results_' = SetResult(SetResult(SetResult(SetResult(SetResult(results_,
                       "goal", Goal(interval0)), "duration", duration),
                       "heads_count", heads), "interval", interval),
                       "physics_iterations", physicsIter)
    /\ calibratedTarget' = duration
    /\ mainPc' = "baseline"
    /\ UNCHANGED <<calibrateIter, heads, physicsIter, fixedHeads, duration, interval,
                   interval0, numHeads, physicsIterations_, failures>>
    /\ UNCHANGED <<platform, hintManager_, hintSession_, baselineMedian_, supportedRet,
                   lastStats, apiCalls, hintCallsMade, closeVars>>
    /\ UNCHANGED nonMainVars

calibrate == CalibrateRound \/ CalibrateReturn

\* android_main: the baseline run, calibration_accuracy and setBaselineMedian
\* (main.cpp:303-311); the accuracy 1 - |baseline - target| / target is
\* recorded as the pair <<|baseline - target|, target>>
MainBaseline ==
    /\ mainPc = "baseline"
    /\ \E stats \in DrawFramesStats :
          /\ results_' = SetResult(results_, "calibration_accuracy",
                              <<Abs(stats.medianWorkDuration - calibratedTarget),
                                calibratedTarget>>)
          /\ baselineMedian_' = stats.medianWorkDuration
    /\ mainPc' = "tests"
    /\ UNCHANGED <<calibrateIter, heads, physicsIter, fixedHeads, duration, interval,
                   interval0, numHeads, physicsIterations_, calibratedTarget, failures>>
    /\ UNCHANGED <<platform, hintManager_, hintSession_, supportedRet,
                   lastStats, apiCalls, hintCallsMade, closeVars>>
    /\ UNCHANGED nonMainVars

\* android_main: the measurement tests run and the results are sent
\* (main.cpp:313-340)
MainTests ==
    /\ mainPc = "tests"
    /\ mainPc' = "sent"
    /\ UNCHANGED <<calibrateIter, heads, physicsIter, fixedHeads, duration, interval,
                   interval0, numHeads, physicsIterations_, calibratedTarget, failures>>
    /\ UNCHANGED <<hintVars, nonMainVars>>

\* handle_cmd, APP_CMD_TERM_WINDOW (main.cpp:211-220): the window goes away
\* while android_main is polling inside drawFrames
HandleTermWindow ==
    /\ mainPc \in {"interval", "calibrate", "baseline", "tests"}
    /\ "App was closed while running!" \notin failures
    /\ failures' = failures \cup {"App was closed while running!"}
    /\ UNCHANGED <<mainPc, calibrateIter, heads, physicsIter, fixedHeads, duration, interval,
                   interval0, numHeads, physicsIterations_, calibratedTarget>>
    /\ UNCHANGED <<hintVars, nonMainVars>>

\* android_main after startHintSession has returned true
InitMain ==
    /\ mainPc = "interval"
    /\ calibrateIter = 0
    /\ heads = 0
    /\ physicsIter = 0
    /\ fixedHeads = FALSE
    /\ duration = 0
    /\ interval = 0
    /\ interval0 = 0
    /\ numHeads = 1
    /\ physicsIterations_ = 1
    /\ calibratedTarget = 0
    /\ failures = {}

\* no session started
InitHint ==
    /\ hintManager_ = "null"
    /\ hintSession_ = "null"
    /\ baselineMedian_ = 0
    /\ results_ = <<>>
    /\ supportedRet = <<>>
    /\ apiCalls = {}
    /\ hintCallsMade = {}
    /\ handleClosed = FALSE
    /\ closedHandleCalls = {}
    /\ lastStats = <<>>

InitRenderer ==
    /\ latest_stage_models_ = [l \in Levels |-> HeadsState(l)]
    /\ stageInputs = [l \in Levels |-> <<>>]
    /\ handled = <<>>
    /\ framesRemaining_ = 0
    /\ framesDone_ = 0
    /\ promiseState = [c \in 0..MaxCalls |-> "pending"]
    /\ batchData_ = EmptyBatch
    /\ lastStart_ = FALSE
    /\ lastTarget_ = 0
    /\ posted = 0
    /\ stageQ = [l \in Levels |-> <<>>]
    /\ stageBusy = [l \in Levels |-> <<>>]
    /\ drawQ = <<>>
    /\ drawBusy = <<>>
    /\ mainThreadLock = NoThread
    /\ apc = [t \in AppThreads |-> "idle"]
    /\ acall = [t \in AppThreads |-> 0]
    /\ aframes = [t \in AppThreads |-> 0]
    /\ aresult = [t \in AppThreads |-> <<>>]
    /\ callCount = 0
    /\ crashed = FALSE
    /\ updated = {}
    /\ drawDone = {}

\* the pipeline's worker threads
Pipeline ==
    \/ \E level \in Levels : StageUpdate(level) \/ StageForward(level)
    \/ DrawBegin
    \/ DrawRender

\* one app thread drives the renderer, as android_main does
NextRenderer ==
    \/ drawFramesSync("app")
    \/ updateTargetWorkDuration("app")
    \/ Pipeline

\* drawFramesSync called from two threads
NextRendererConc ==
    \/ \E t \in AppThreads : drawFramesSync(t)
    \/ Pipeline

(* ------------------------------------------------------------------ *)
(* Initial state and specifications of one EventLoop                    *)
(* ------------------------------------------------------------------ *)
InitLoop ==
    /\ mEventsQueue = <<>>
    /\ mEventsProcessing = <<>>
    /\ mQueueMutex = NoThread
    /\ mRunnerMutex = NoThread
    /\ mStopping = FALSE
    /\ mTidPromise = NoTid
    /\ mTidFuture = "valid"
    /\ mTid = NoTid
    /\ wpc = "start"
    /\ ppc = [p \in Producers |-> "idle"]
    /\ pjob = [p \in Producers |-> 0]
    /\ nextJob = 1
    /\ dpc = "alive"
    /\ cpc = [c \in Callers |-> "idle"]
    /\ cval = [c \in Callers |-> NoTid]
    /\ cret = [c \in Callers |-> NoTid]
    /\ appended = <<>>
    /\ started = <<>>
    /\ finished = {}
    /\ queuedAtStop = {}
    /\ committedAtStop = {}
    /\ futureReads = 0

(* ================================================================== *)
(* Regression calibration (the regression variant of the calibration    *)
(* control loop).  Durations are in ticks of 1/8 ms, as in calibrate.   *)
(* A fitted line is <<slope numerator, intercept numerator,             *)
(* denominator>> with a positive denominator, so the fit is exact.      *)
(* ================================================================== *)
\* the iteration budget of the loop
kRegressionBudget == 20
\* the cheapest and the most expensive workload that can be proposed
MinIterCount == 1
MaxIterCount == 40
\* the fixed small and large iteration counts of the two seed samples
SeedSmall == MinIterCount
SeedLarge == 10
\* goals of the runs explored
RegGoals == {66, 100}
\* measurement behaviours explored: duration = m*iter + c + k*iter^2/8, read
\* with a resolution of q ticks (k = 0, q = 1 is the noiseless linear oracle)
RegOracles == [m : {1, 2, 3, 5}, c : {0, 10, 40, 70, 120}, k : {0, 1}, q : {1, 7, 30}]
RegRoundings == {"down", "up"}

CeilDiv(a, b) == (a + b - 1) \div b
\* the duration measured for an iteration count
Measure(oracle, iter) ==
    oracle.q * CeilDiv(oracle.m * iter + oracle.c + (oracle.k * iter * iter) \div 8, oracle.q)

\* x^px * y^py of one sample, px and py in {0, 1, 2}
Term(sample, px, py) ==
    (IF px = 0 THEN 1 ELSE IF px = 1 THEN sample[1] ELSE sample[1] * sample[1])
    * (IF py = 0 THEN 1 ELSE IF py = 1 THEN sample[2] ELSE sample[2] * sample[2])

RECURSIVE SumTo(_, _, _, _)
SumTo(samples, n, px, py) ==
    IF n = 0 THEN 0 ELSE Term(samples[n], px, py) + SumTo(samples, n - 1, px, py)

\* sum of x^px * y^py over the samples
SumOver(samples, px, py) == SumTo(samples, Len(samples), px, py)

\* a fit whose slope leaves out the product of the sums
LeastSquaresNoCross(samples) ==
    LET n == Len(samples)
        sx == SumOver(samples, 1, 0)
        sy == SumOver(samples, 0, 1)
        sxx == SumOver(samples, 2, 0)
        sxy == SumOver(samples, 1, 1)
    IN  <<n * sxy, sy * sxx - sx * sxy, n * sxx - sx * sx>>

\* closed-form least-squares line through the samples
LeastSquares(samples) ==
    LET n == Len(samples)
        sx == SumOver(samples, 1, 0)
        sy == SumOver(samples, 0, 1)
        sxx == SumOver(samples, 2, 0)
        sxy == SumOver(samples, 1, 1)
    IN  <<n * sxy - sx * sy, sy * sxx - sx * sxy, n * sxx - sx * sx>>

ClampIter(iter) == MaxOf(MinIterCount, MinOf(MaxIterCount, iter))

\* the iteration count whose predicted duration equals the goal; the solved
\* count is turned into an integer by the build's rounding, and a line
\* without a positive slope predicts the goal nowhere
Propose(fit, goal, rounding) ==
    IF fit[1] <= 0 THEN MaxIterCount
    ELSE LET num == goal * fit[3] - fit[2]
             down == IF num >= 0 THEN num \div fit[1] ELSE 0
             up == IF num >= 0 THEN CeilDiv(num, fit[1]) ELSE 0
         IN  ClampIter(IF rounding = "down" THEN down ELSE up)

\* residual of a sample against a line, times the line's denominator
Residual(fit, sample) == sample[2] * fit[3] - fit[1] * sample[1] - fit[2]

\* index of the first sample with the largest positive residual, 0 if no
\* residual is positive
LargestResidualAt(fit, samples) ==
    LET over == {i \in 1..Len(samples) : Residual(fit, samples[i]) > 0}
    IN  IF over = {} THEN 0
        ELSE CHOOSE i \in over :
                 \A j \in over :
                     \/ Residual(fit, samples[j]) < Residual(fit, samples[i])
                     \/ (Residual(fit, samples[j]) = Residual(fit, samples[i]) /\ i <= j)

RemoveAt(s, i) == SubSeq(s, 1, i - 1) \o SubSeq(s, i + 1, Len(s))

\* outlier rejection: only over-shoots are dropped
DropOutlier(fit, samples) ==
    LET at == LargestResidualAt(fit, samples)
    IN  IF at = 0 THEN samples ELSE RemoveAt(samples, at)

\* relative error to the goal below 2%
WithinTolerance(d, goal) == 100 * Abs(d - goal) < 2 * goal

\* the workload floor is too high to calibrate down
FloorTooHigh(d, goal) == d > goal + Ms

\* a budget check that lets one more iteration through
BudgetExhaustedLate(iter) == iter > kRegressionBudget
BudgetExhausted(iter) == iter >= kRegressionBudget

\* the first seed: the cheapest workload is measured and checked
RegSeedSmall ==
    /\ regPc = "seedSmall"
    /\ LET d == Measure(regOracle, SeedSmall)
       IN  /\ regSamples' = <<<<SeedSmall, d>>>>
           /\ IF FloorTooHigh(d, regGoal)
              THEN regFailed' = TRUE /\ regPc' = "done"
              ELSE regFailed' = FALSE /\ regPc' = "seedLarge"
    /\ UNCHANGED <<regOracle, regRounding, regGoal, regIter, regFit, regMeasured>>
    /\ UNCHANGED <<loopVars, tidVars, rendVars, lifeVars, hintVars, calVars, physVars, pipeVars>>

\* the second seed
RegSeedLarge ==
    /\ regPc = "seedLarge"
    /\ regSamples' = Append(regSamples, <<SeedLarge, Measure(regOracle, SeedLarge)>>)
    /\ regPc' = "loop"
    /\ UNCHANGED <<regOracle, regRounding, regGoal, regIter, regFit, regMeasured, regFailed>>
    /\ UNCHANGED <<loopVars, tidVars, rendVars, lifeVars, hintVars, calVars, physVars, pipeVars>>

\* one iteration: fit, propose, measure and append, reject an outlier every
\* 4th iteration, then decide whether to stop
RegIterate ==
    /\ regPc = "loop"
    /\ \E fit \in {LeastSquares(regSamples)} :
       \E iter \in {Propose(fit, regGoal, regRounding)} :
       \E d \in {Measure(regOracle, iter)} :
       \E withNew \in {Append(regSamples, <<iter, d>>)} :
           /\ regFit' = <<fit>>
           /\ regIter' = regIter + 1
           /\ regMeasured' = Append(regMeasured, d)
           /\ regSamples' = IF (regIter + 1) % 4 = 0 THEN DropOutlier(fit, withNew)
                            ELSE withNew
           /\ IF WithinTolerance(d, regGoal)
              THEN regPc' = "done" /\ regFailed' = FALSE
              ELSE IF BudgetExhausted(regIter + 1)
                   THEN regPc' = "done" /\ regFailed' = TRUE
                   ELSE regPc' = "loop" /\ regFailed' = FALSE
    /\ UNCHANGED <<regOracle, regRounding, regGoal>>
    /\ UNCHANGED <<loopVars, tidVars, rendVars, lifeVars, hintVars, calVars, physVars, pipeVars>>

\* the regression calibration about to run against one oracle
InitRegressionWith(oracles, goals) ==
    /\ regOracle \in oracles
    /\ regRounding \in RegRoundings
    /\ regGoal \in goals
    /\ regPc = "seedSmall"
    /\ regIter = 0
    /\ regSamples = <<>>
    /\ regFit = <<>>
    /\ regMeasured = <<>>
    /\ regFailed = FALSE

\* the regression variant not in use
InitRegressionIdle ==
    /\ InitRegressionWith({[m |-> 1, c |-> 0, k |-> 0, q |-> 1]}, {100})
    /\ regRounding = "down"

(* ================================================================== *)
(* Model physics (Model.h).  A float is modelled by the integer it is   *)
(* in units of 2^-24, so 1.0f is 2^24; the floats used are whole        *)
(* numbers of units, and a sum or difference is rounded as IEEE 754     *)
(* single precision rounds it: to 24 significant bits, ties to even.    *)
(* Only x and y are kept: nothing in the boundary handling reads z.     *)
(* ================================================================== *)
\* applyPhysics calls explored
MaxApplyCalls == 3
\* 2^24: the first magnitude at which a float has no room for the unit
Mantissa == 2 ^ 24
\* the deltaTimeUnit of the calls explored, 1.0f: products with it are exact
deltaTimeUnit == 1
\* boundaries explored: width 2 + 12 units, height 2
Widths == {2 * Mantissa + 12}
Heights == {2 * Mantissa}
\* initial coordinates explored: the origin, inside, on the right border,
\* on the top border, and outside
Coordinates == {0, -(Mantissa \div 2), Mantissa + 6, Mantissa, 3 * Mantissa}
\* initial velocity components explored (velocity_ has no initializer)
Velocities == {0, -2, 4 * Mantissa}
\* what the pair loop can add up to for one body and one other body, per
\* component: G = 6.67e-10 and the floor of 0.01 on the distance keep
\* G * mass / distanceSq at or below about one unit
PairAccelerations == {<<0, 0>>, <<1, 0>>, <<0, -1>>}

RECURSIVE UlpOf(_, _)
\* the spacing of the floats around a magnitude
UlpOf(magnitude, ulp) ==
    IF magnitude < Mantissa * ulp THEN ulp ELSE UlpOf(magnitude, 2 * ulp)

\* the float nearest to an exact value, ties to the even mantissa
FloatRound(v) ==
    LET a == Abs(v)
        ulp == UlpOf(a, 1)
        q == a \div ulp
        r == a % ulp
        up == 2 * r > ulp \/ (2 * r = ulp /\ q % 2 = 1)
        rounded == (IF up THEN q + 1 ELSE q) * ulp
    IN  IF v < 0 THEN -rounded ELSE rounded

\* Vector3 operator+ and operator-, component by component
VecAdd(a, b) == <<FloatRound(a[1] + b[1]), FloatRound(a[2] + b[2])>>
VecScale(a, k) == <<FloatRound(a[1] * k), FloatRound(a[2] * k)>>

\* a Model of one vertex: findCenter puts center_ on it
ModelAt(position, velocity) ==
    [center_ |-> position, startVertices_ |-> <<position>>,
     currentVertices_ |-> <<position>>, velocity_ |-> velocity]

\* Model::move
move(model, offset) ==
    [model EXCEPT
        !.startVertices_ = [i \in 1..Len(model.startVertices_) |->
                                VecAdd(model.startVertices_[i], offset)],
        !.currentVertices_ = [i \in 1..Len(model.currentVertices_) |->
                                  VecAdd(model.currentVertices_[i], offset)],
        !.center_ = VecAdd(model.center_, offset)]

\* a pair loop that does not skip the body itself
OthersAndSelf(size, i) == 1..size
\* the bodies the pair loop visits for body i
Others(size, i) == {j \in 1..size : i # j}

\* the values acc can have after the pair loop
Accelerations(size, i) ==
    IF Others(size, i) = {} THEN {<<0, 0>>} ELSE PairAccelerations

AxisVector(axis, value) == IF axis = 1 THEN <<value, 0>> ELSE <<0, value>>

\* the boundary handling of one axis: reflect the velocity and move the
\* body by border - center
Reflect(model, axis, extent) ==
    LET half == extent \div 2
        c == model.center_[axis]
        v == model.velocity_[axis]
    IN  IF c <= -half \/ c >= half
        THEN LET border == IF c <= -half THEN -half ELSE half
                 turned == [model EXCEPT
                               !.velocity_[axis] = IF c <= -half THEN Abs(v) ELSE -Abs(v)]
             IN  move(turned, AxisVector(axis, FloatRound(border - c)))
        ELSE model

\* the body of the outer loop for one body, given what the pair loop summed
StepBody(model, acc, w, h) ==
    LET faster == [model EXCEPT
                      !.velocity_ = VecAdd(model.velocity_, VecScale(acc, deltaTimeUnit))]
        moved == move(faster, VecScale(faster.velocity_, deltaTimeUnit))
    IN  Reflect(Reflect(moved, 1, w), 2, h)

RECURSIVE nBodySimulation(_, _, _, _, _)
\* the outer loop from body i on: bodies are updated in place, in index order
nBodySimulation(ms, i, accs, w, h) ==
    IF i > Len(ms) THEN ms
    ELSE nBodySimulation([ms EXCEPT ![i] = StepBody(ms[i], accs[i], w, h)],
                         i + 1, accs, w, h)

\* Model::applyPhysics
applyPhysics ==
    /\ applyCalls < MaxApplyCalls
    /\ \E accs \in [1..Len(models) -> PairAccelerations] :
           /\ \A i \in 1..Len(models) : accs[i] \in Accelerations(Len(models), i)
           /\ models' = nBodySimulation(models, 1, accs, width, height)
    /\ applyCalls' = applyCalls + 1
    /\ UNCHANGED <<initialModels, width, height>>
    /\ UNCHANGED <<loopVars, tidVars, rendVars, lifeVars, hintVars, calVars, regVars, pipeVars>>

\* a body at rest at the origin
StillBody == ModelAt(<<0, 0>>, <<0, 0>>)

\* the arrays explored: any one body, or a body on the x axis with a second
\* body at rest at the origin
Arrangements ==
    {<<ModelAt(p, v)>> : p \in Coordinates \X Coordinates, v \in Velocities \X Velocities}
    \cup {<<ModelAt(<<x, 0>>, <<vx, 0>>), StillBody>> : x \in Coordinates, vx \in Velocities}

InitPhysicsWith(arrangements) ==
    /\ models \in arrangements
    /\ initialModels = models
    /\ width \in Widths
    /\ height \in Heights
    /\ applyCalls = 0

\* the physics not in use
InitPhysicsIdle == InitPhysicsWith({<<StillBody>>})

vars == <<loopVars, tidVars, rendVars, extVars>>

\* a device whose hint API is fully supported
SupportingPlatform == [manager |-> TRUE, rate |-> 1, creates |-> TRUE]

Init ==
    /\ InitLoop /\ InitRenderer /\ InitConstructed /\ InitHint /\ InitMain
    /\ InitRegressionIdle /\ InitPhysicsIdle
    /\ platform = SupportingPlatform

\* a constructed Renderer on any device
InitAnyDevice ==
    /\ InitLoop /\ InitRenderer /\ InitConstructed /\ InitHint /\ InitMain
    /\ InitRegressionIdle /\ InitPhysicsIdle
    /\ platform \in Platforms

\* the state before the Renderer's constructor runs
InitLifecycle ==
    /\ InitLoop /\ InitRenderer /\ InitUnconstructed /\ InitHint /\ InitMain
    /\ InitRegressionIdle /\ InitPhysicsIdle
    /\ platform = SupportingPlatform

\* producers, the worker and the destructor of one EventLoop
NextLoop ==
    \/ WStart
    \/ run
    \/ WSpuriousWake
    \/ \E p \in Producers : queueWork(p)
    \/ Destructor

Spec == Init /\ [][NextLoop]_vars

\* the same EventLoop under fair scheduling: every thread that can take a step
\* eventually takes it, a thread contending for the mutex eventually gets it,
\* and join returns once run has returned.  Nothing obliges a producer to call
\* queueWork, the owner to destroy the loop, or the condition variable to wake
\* without a notification.
ProducerProgress(p) == PEmplace(p) \/ PUnlock(p) \/ PNotify(p)

Fairness ==
    /\ WF_vars(WStart)
    /\ WF_vars(WLoopTest \/ WPred \/ WBlock \/ WCheckStop \/ WSwap
                \/ WInnerTest \/ WRun \/ WFinish \/ WPop)
    /\ SF_vars(WLock)
    /\ \A p \in Producers : WF_vars(ProducerProgress(p)) /\ SF_vars(PLock(p))
    /\ WF_vars(DNotify \/ DJoin)

SpecLoopFair == Init /\ [][NextLoop]_vars /\ Fairness

\* getlooptid called once by each caller thread, concurrently with the start of run
NextTid ==
    \/ WStart
    \/ \E c \in Callers : getlooptid(c)

SpecTid == Init /\ [][NextTid]_vars

SpecRenderer == Init /\ [][NextRenderer]_vars

SpecRendererConc == Init /\ [][NextRendererConc]_vars

\* the whole life of one Renderer: the app thread constructs it, draws
\* batches of frames and destroys it
NextLifecycle ==
    \/ threadedInit("app")
    \/ InitRendererSetup
    \/ InitRendererSignal
    \/ drawFramesSync("app")
    \/ Pipeline
    \/ RendererDestructor("app")

SpecLifecycle == InitLifecycle /\ [][NextLifecycle]_vars

\* the app thread uses the hint session and reads statistics
NextHint ==
    \/ \E target \in Targets : startHintSession(target)
    \/ \E actual \in Durations : reportActualWorkDuration(actual)
    \/ updateTargetWorkDuration("app")
    \/ \E median \in Baselines : setBaselineMedian(median)
    \/ closeHintSession
    \/ \E batchData \in BatchInputs : GetFrameStats(batchData)

SpecHint == InitAnyDevice /\ [][NextHint]_vars

\* android_main from the first measurement to the sending of the results
NextMain ==
    \/ MainMeasureInterval
    \/ calibrate
    \/ MainBaseline
    \/ MainTests
    \/ HandleTermWindow

SpecMain == Init /\ [][NextMain]_vars

\* a regression calibration against any of the oracles
InitRegression ==
    /\ InitLoop /\ InitRenderer /\ InitConstructed /\ InitHint /\ InitMain
    /\ InitRegressionWith(RegOracles, RegGoals) /\ InitPhysicsIdle
    /\ platform = SupportingPlatform

NextRegression ==
    \/ RegSeedSmall
    \/ RegSeedLarge
    \/ RegIterate

\* the calibration is straight-line code: it keeps running until it returns
SpecRegression ==
    InitRegression /\ [][NextRegression]_vars /\ WF_vars(NextRegression)

\* applyPhysics called again and again on one array
InitPhysics ==
    /\ InitLoop /\ InitRenderer /\ InitConstructed /\ InitHint /\ InitMain
    /\ InitRegressionIdle /\ InitPhysicsWith(Arrangements)
    /\ platform = SupportingPlatform

NextPhysics == applyPhysics

SpecPhysics == InitPhysics /\ [][NextPhysics]_vars

(* ================================================================== *)
(* Properties of the EventLoop                                          *)
(* ================================================================== *)
IsPrefix(s, t) == Len(s) <= Len(t) /\ \A i \in 1..Len(s) : s[i] = t[i]

\* C1: the worker starts jobs in exactly the order in which they were appended
\* to the pending queue, and a job starts only after every job appended before
\* it has finished (FIFO, no reordering, no overlap).
C1_FifoNoOverlap ==
    /\ IsPrefix(started, appended)
    /\ \A i \in 1..Len(started) :
          (i < Len(started) \/ wpc # "running") => started[i] \in finished
    /\ finished \subseteq SeqToSet(started)

\* two producers appended in the opposite order of their calls, both jobs ran,
\* and a third job is pending while the worker drains
C1_Witness ==
    /\ Len(started) >= 2
    /\ started[1] > started[2]
    /\ started[2] \in finished
    /\ mEventsQueue # <<>>

\* C2: once the destructor has set the stopping flag and notified, the worker
\* thread eventually exits and join returns.
C2_DestructorTerminates == (dpc = "join") ~> (dpc = "joined")

\* C3: every getlooptid call returns the id the worker published; no call
\* fails and the one-shot future is read at most once.
C3_SameTidForAll ==
    /\ \A c \in Callers : cpc[c] # "failed"
    /\ \A c \in Callers : cpc[c] = "done" => cret[c] = WorkerTid
    /\ futureReads <= 1

\* C4: while the loop is not being destroyed, every job passed to queueWork is
\* eventually executed (no wake-up is lost, no job is stranded in a queue).
C4_EveryJobRuns ==
    \A j \in 1..MaxTasks : (nextJob > j) ~> (j \in finished \/ mStopping)

\* every job was passed in while the worker was somewhere in its loop, all of
\* them have run, and the worker is blocked in wait again
C4_Witness ==
    /\ Len(appended) = MaxTasks
    /\ finished = SeqToSet(appended)
    /\ wpc = "waiting"
    /\ ~mStopping

\* C5 as stated: no job still queued when the destructor sets the stopping flag
\* is started afterwards.
C5_NoQueuedJobStartedAfterStop == queuedAtStop \cap SeqToSet(started) = {}

\* C5 amended: of the jobs still queued when the flag is set, only the job at
\* the front of the in-flight queue can still be started, and only when the
\* worker had already passed the drain loop's test for it; every other queued
\* job is dropped.
C5_OnlyCommittedJobStartedAfterStop ==
    /\ queuedAtStop \cap SeqToSet(started) \subseteq committedAtStop
    /\ Cardinality(queuedAtStop \cap SeqToSet(started)) <= 1
    /\ wpc = "exited" => dpc # "alive"

\* the worker has exited and left two or more queued jobs unexecuted
C5_Witness ==
    /\ wpc = "exited"
    /\ Cardinality(queuedAtStop \ SeqToSet(started)) >= 2
    /\ mEventsQueue # <<>>
    /\ mEventsProcessing # <<>>

(* ================================================================== *)
(* Properties of the Renderer                                           *)
(* ================================================================== *)
\* the jobs queued on or run by the worker of loops_[level], and of drawLoop_
StageJobs(level) == SeqToSet(stageQ[level]) \cup SeqToSet(stageBusy[level])
DrawJobs == SeqToSet(drawQ) \cup SeqToSet(drawBusy)

\* C6: within one frame the stage-L job is enqueued only after the stage-(L+1)
\* update of that frame has completed, and the draw job only after its stage-0
\* update; so a frame's stages complete in the order kStages-1, ..., 1, 0, draw.
C6_CascadeOrder ==
    /\ \A level \in Levels : \A job \in StageJobs(level) :
          \A above \in Levels : above > level => <<job.frame, above>> \in updated
    /\ \A job \in DrawJobs : \A level \in Levels : <<job.frame, level>> \in updated
    /\ \A u \in updated : \A above \in Levels : above > u[2] => <<u[1], above>> \in updated
    /\ \A frame \in drawDone : \A level \in Levels : <<frame, level>> \in updated

\* a frame has gone through every stage and is being drawn while the next
\* frame of the same call is in the pipeline behind it
C6_Witness ==
    /\ drawBusy # <<>>
    /\ \A level \in Levels : <<drawBusy[1].frame, level>> \in updated
    /\ \E level \in Levels : \E job \in StageJobs(level) :
          job.frame[1] = drawBusy[1].frame[1] /\ job.frame[2] = drawBusy[1].frame[2] + 1

\* C7: when drawFramesSync(N) finds its future ready, the draw job of the N-th
\* frame has completed, and no draw job of the call is still to write batchData_.
C7_ReadyOnlyAfterLastDraw ==
    \A t \in AppThreads :
        (apc[t] = "stats" /\ aframes[t] >= 1) =>
            \A k \in 1..aframes[t] : <<acall[t], k>> \in drawDone

\* C8: the batch that getFrameStats reads at the end of drawFramesSync(N), N >= 1,
\* holds exactly N durations, one from each frame of that call and none from
\* another call.
C8_BatchHoldsExactlyN ==
    \A t \in AppThreads :
        (aresult[t] # <<>> /\ aresult[t][1].frames >= 1) =>
            /\ Len(aresult[t][1].durations) = aresult[t][1].frames
            /\ SeqToSet(aresult[t][1].durations) =
                  {<<aresult[t][1].call, k>> : k \in 1..aresult[t][1].frames}

\* C9: while one thread is inside drawFramesSync holding mainThreadLock, a
\* step of another thread's drawFramesSync call neither modifies the shared
\* frame state (framesDone_ and its shared state, batchData_, framesRemaining_)
\* nor posts a callback.
C9_SingleFlight ==
    [][\A t \in AppThreads : \A u \in AppThreads \ {t} :
          (mainThreadLock = t /\ apc'[u] # apc[u]) =>
              UNCHANGED <<framesDone_, promiseState, batchData_, framesRemaining_, posted>>]_vars

\* C10: getClosestCallbackToTarget returns the candidate with the lowest index
\* among those minimising |deadlineNanos - frameTimeNanos - target|, and the
\* StackState a callback creates carries exactly that candidate, chosen against
\* the lastTarget_ in force when the callback runs.
LowestClosestIndex(target, data) ==
    CHOOSE i \in 1..Len(data.vsyncs) :
        /\ \A j \in 1..Len(data.vsyncs) : VsyncDiff(target, data, i) <= VsyncDiff(target, data, j)
        /\ \A j \in 1..(i - 1) : VsyncDiff(target, data, j) > VsyncDiff(target, data, i)

Last(s) == s[Len(s)]

C10_ClosestLowestIndex ==
    [][Len(batchData_'.vsyncs) = Len(batchData_.vsyncs) + 1 =>
          LET data == Last(batchData_'.vsyncs)
              best == data.vsyncs[LowestClosestIndex(lastTarget_, data)]
          IN  /\ getClosestCallbackToTarget(lastTarget_, data) = best
              /\ Last(batchData_'.selectedVsync) = best
              /\ Last(stageQ'[kStages - 1]).intendedVsync = best
              /\ best.index = LowestClosestIndex(lastTarget_, data) - 1]_vars

\* a callback whose two candidates are equally close to the target chose the first
C10_Witness ==
    \E i \in 1..Len(batchData_.selectedVsync) :
        /\ Len(batchData_.vsyncs[i].vsyncs) = 2
        /\ VsyncDiff(lastTarget_, batchData_.vsyncs[i], 1) = VsyncDiff(lastTarget_, batchData_.vsyncs[i], 2)
        /\ batchData_.vsyncs[i].vsyncs[1].deadlineNanos # batchData_.vsyncs[i].vsyncs[2].deadlineNanos
        /\ batchData_.selectedVsync[i].index = 0
        /\ \E job \in DrawJobs : job.intendedVsync = batchData_.selectedVsync[i]

(* ================================================================== *)
(* Properties of the Renderer's construction and destruction            *)
(* ================================================================== *)
\* C11: over the whole life of a Renderer every operation on the EGL/GL
\* context (initRenderer, updateRenderArea, render, swapBuffers, the EGL
\* teardown) is performed by the draw loop's worker thread.
C11_GlOnlyOnDrawThread == \A op \in glOps : op[2] = DrawThread

\* C20: the constructor returns only after initRenderer (EGL/GL setup and
\* createHeads) has run to completion on the draw loop's thread; until it has
\* returned no stage or frame work exists; and on return tids_ holds the
\* kStages stage-loop worker ids in index order followed by the draw loop's.
C20_BlockingConstruction ==
    /\ rpc \in {"constructed", "destroyed"} =>
          /\ initJob = "done"
          /\ headsCreated
          /\ <<"initRenderer", DrawThread>> \in glOps
          /\ Len(tids_) = kStages + 1
          /\ \A level \in Levels : tids_[level + 1] = LoopTid(level)
          /\ tids_[kStages + 1] = DrawTid
    /\ rpc \in {"new", "waitInit"} =>
          /\ tids_ = <<>>
          /\ posted = 0 /\ callCount = 0
          /\ \A level \in Levels : StageJobs(level) = {}
          /\ DrawJobs = {} /\ updated = {} /\ drawDone = {}

\* the constructor has returned and a frame of the first batch is being drawn
C20_Witness ==
    /\ rpc = "constructed"
    /\ drawBusy # <<>>
    /\ Len(tids_) = kStages + 1

(* ================================================================== *)
(* Properties of the hint session and the statistics                    *)
(* ================================================================== *)
\* the device reports the hint session unsupported: no manager, a preferred
\* update rate <= 0, or createSession returning null
Unsupported == ~platform.manager \/ platform.rate <= 0 \/ ~platform.creates

\* C12: on a device whose hint API reports unsupported, every startHintSession
\* call returns false and records isHintSessionSupported = "false",
\* isHintSessionRunning() is false throughout, and reportActualWorkDuration and
\* updateTargetWorkDuration never call into the session API.
C12_UnsupportedDegrades ==
    Unsupported =>
        /\ supportedRet \in {<<>>, <<FALSE>>}
        /\ supportedRet # <<>> => results_["isHintSessionSupported"] = "false"
        /\ ~isHintSessionRunning(hintSession_)
        /\ "reportActualWorkDuration" \notin apiCalls
        /\ "updateTargetWorkDuration" \notin apiCalls

\* createSession was tried and returned null, and afterwards durations were
\* reported and the target was updated
C12_Witness ==
    /\ Unsupported
    /\ "createSession" \in apiCalls
    /\ supportedRet = <<FALSE>>
    /\ {"reportActualWorkDuration", "updateTargetWorkDuration"} \subseteq hintCallsMade

\* the number of durations of a batch strictly greater than the target
NumberExceeding(durations, target) ==
    Cardinality({i \in 1..Len(durations) : durations[i] > target})

\* C19: getFrameStats sets exceededCount, exceededFraction and efficiency if
\* and only if a hint session is running; when set, exceededCount is the number
\* of batch durations strictly greater than lastTarget_ and exceededFraction is
\* exceededCount divided by the number of durations.
C19_ExceededStats ==
    lastStats # <<>> =>
        LET call == lastStats[1]
            running == call.session # "null"
            durations == call.batchData.durations
        IN  /\ (call.stats.exceededCount # <<>>) <=> running
            /\ (call.stats.exceededFraction # <<>>) <=> running
            /\ (call.stats.efficiency # <<>>) <=> running
            /\ running =>
                  /\ call.stats.exceededCount[1] = NumberExceeding(durations, call.target)
                  /\ call.stats.exceededFraction[1] =
                        <<call.stats.exceededCount[1], Len(durations)>>

\* with a session running, a batch had a duration equal to the target, one
\* above it and one below it, and exactly one was counted
C19_Witness ==
    /\ lastStats # <<>>
    /\ lastStats[1].session # "null"
    /\ Len(lastStats[1].batchData.durations) = 3
    /\ \E i, j, k \in 1..3 :
          /\ lastStats[1].batchData.durations[i] = lastStats[1].target
          /\ lastStats[1].batchData.durations[j] > lastStats[1].target
          /\ lastStats[1].batchData.durations[k] < lastStats[1].target
    /\ lastStats[1].stats.exceededCount = <<1>>

(* ================================================================== *)
(* Properties of the calibration                                        *)
(* ================================================================== *)
\* the loop ran all its rounds and the last measured duration is still
\* outside the tolerance band around the goal
CalibrationExhausted ==
    /\ calibrateIter = kCalibrateRounds
    /\ duration < DurationMin(interval0) \/ duration > DurationMax(interval0)

\* C13: whenever calibrate has used up its rounds with the measured median
\* duration still outside the tolerance band, a failure has been reported by
\* the time the measurement tests run.
C13_NonConvergenceReported ==
    (mainPc \in {"tests", "sent"} /\ CalibrationExhausted) => failures # {}

\* C16: in every step of calibrate the head count handed to setNumHeads lies
\* in 1..maxHeads, and once fixedHeads is set the head count stays as it is.
C16_HeadsBoundedThenFixed ==
    [][mainPc = "calibrate" =>
          /\ numHeads' \in 1..maxHeads
          /\ numHeads' = heads'
          /\ fixedHeads => (fixedHeads' /\ heads' = heads)]_vars

\* the head count was raised to the cap, declared fixed there, and later
\* rounds went on tuning the physics iterations
C16_Witness ==
    /\ mainPc = "calibrate"
    /\ fixedHeads
    /\ numHeads = maxHeads
    /\ physicsIter > 4
    /\ calibrateIter > 6

(* ================================================================== *)
(* Properties of the regression calibration                             *)
(* ================================================================== *)
\* the loop has stopped at the first iteration inside the 2% band
RegConverged ==
    /\ regIter \in 1..kRegressionBudget
    /\ WithinTolerance(regMeasured[regIter], regGoal)
    /\ ~regFailed

\* the loop has made exactly 20 iterations, none inside the band, and failed
RegExhausted ==
    /\ regIter = kRegressionBudget
    /\ ~WithinTolerance(regMeasured[regIter], regGoal)
    /\ regFailed

\* failure without iterating: the cheapest workload is over the goal by > 1 ms
RegFloorFailed ==
    /\ regIter = 0
    /\ regFailed
    /\ Measure(regOracle, MinIterCount) > regGoal + Ms

RegStopsRight ==
    /\ Len(regMeasured) = regIter
    /\ regIter <= kRegressionBudget
    \* no iteration before the last one was inside the band
    /\ \A i \in 1..(regIter - 1) : ~WithinTolerance(regMeasured[i], regGoal)
    /\ regPc = "loop" =>
           /\ regIter < kRegressionBudget
           /\ \A i \in 1..regIter : ~WithinTolerance(regMeasured[i], regGoal)
    /\ regPc = "done" => (RegConverged \/ RegExhausted \/ RegFloorFailed)
    /\ (regPc # "seedSmall" /\ Measure(regOracle, MinIterCount) > regGoal + Ms)
           => (regPc = "done" /\ RegFloorFailed)

\* C14: the regression calibration loop always terminates: it stops at the
\* first iteration whose measured duration is within 2% (strictly) of the goal,
\* otherwise after exactly 20 iterations with failure reported, and it fails
\* at once, with no iteration made, when the cheapest workload measures more
\* than 1 ms over the goal.
C14_RegressionTerminates == []RegStopsRight /\ <>(regPc = "done")

\* the budget of 20 iterations was used up without convergence
C14_Witness == regPc = "done" /\ RegExhausted /\ Len(regSamples) > 2

\* the oracle of the run is noiseless and linear with a positive slope
LinearOracle == regOracle.q = 1 /\ regOracle.k = 0 /\ regOracle.m > 0

\* the goal is the duration of some workload that can be proposed
ReachableGoal ==
    \E iter \in MinIterCount..MaxIterCount : Measure(regOracle, iter) = regGoal

InBounds(center) ==
    /\ -(width \div 2) <= center[1] /\ center[1] <= width \div 2
    /\ -(height \div 2) <= center[2] /\ center[2] <= height \div 2

\* C17: after any number (>= 1) of applyPhysics calls, every model's centre
\* is within [-W/2, W/2] x [-H/2, H/2], whatever the initial positions and
\* velocities.
C17_CentresWithinBoundary ==
    applyCalls >= 1 => \A i \in 1..Len(models) : InBounds(models[i].center_)

\* the array holds a single body whose velocity was zero at the start
SingleStillBody == Len(initialModels) = 1 /\ initialModels[1].velocity_ = <<0, 0>>

\* centre and vertices of the single body are what they were at the start
BodyUnchanged ==
    /\ models[1].center_ = initialModels[1].center_
    /\ models[1].startVertices_ = initialModels[1].startVertices_
    /\ models[1].currentVertices_ = initialModels[1].currentVertices_

Updating(level, frame) == stageBusy[level] # <<>> /\ stageBusy[level][1].frame = frame

\* frames that some stage is updating
FramesUpdating == {stageBusy[l][1].frame : l \in {k \in Levels : stageBusy[k] # <<>>}}

FramesUpdated(level) == [i \in 1..Len(stageInputs[level]) |-> stageInputs[level][i].frame]

\* what the update numbered i of a level must have read: the StageState stored
\* by the update before it, or what createHeads left
ExpectedInput(level, i) ==
    IF i = 1 THEN HeadsState(level)
    ELSE UpdatedState(stageInputs[level][i - 1].frame, level)

\* C22: at every level the frames are updated in Choreographer-callback order,
\* none skipped and none twice; the update of each frame reads exactly the
\* StageState the update of the frame before it stored at that level;
\* latest_stage_models_[L] holds the last stored state and is read and written
\* by the worker of loops_[L] alone, also with several frames in the pipeline.
C22_StageStateChain ==
    \A level \in Levels :
        /\ IsPrefix(FramesUpdated(level), handled)
        /\ \A i \in 1..Len(stageInputs[level]) :
              /\ stageInputs[level][i].input = ExpectedInput(level, i)
              /\ stageInputs[level][i].thread = LoopTid(level)
        /\ latest_stage_models_[level] = ExpectedInput(level, Len(stageInputs[level]) + 1)

\* the top level has updated two frames of one call while the second of them
\* has not reached level 0 yet
C22_Witness ==
    /\ Len(stageInputs[kStages - 1]) >= 2
    /\ Len(stageInputs[0]) < Len(stageInputs[kStages - 1])
    /\ stageInputs[kStages - 1][1].frame[1] = stageInputs[kStages - 1][2].frame[1]
    /\ stageInputs[0] # <<>>

(* ================================================================== *)
(* Properties of the EventLoop's two queues                             *)
(* ================================================================== *)
\* a producer is inside the scoped_lock block of queueWork
InEmplaceBlock(p) == ppc[p] \in {"emplace", "unlock"}

\* where things stand: producers are at the pending queue only with the
\* mutex, and the worker comes to the swap with the mutex and with nothing
\* left in flight
QueuesGuarded ==
    /\ \A p \in Producers : InEmplaceBlock(p) => mQueueMutex = p
    /\ wpc = "swap" => (mQueueMutex = Worker /\ mEventsProcessing = <<>>)
    /\ wpc \in {"run", "running", "pop"} => mQueueMutex # Worker

\* who changes what: the in-flight queue changes only in the worker's swap
\* and pop, the pending queue only in the swap and in an emplace made with
\* the mutex held, and never while its content is in flight
QueuesTouchedByOwner ==
    /\ mEventsProcessing' # mEventsProcessing =>
          \/ wpc = "swap" /\ mQueueMutex = Worker /\ mEventsProcessing = <<>>
          \/ wpc = "pop" /\ mEventsProcessing' = Tail(mEventsProcessing)
    /\ mEventsQueue' # mEventsQueue =>
          \/ wpc = "swap" /\ mQueueMutex = Worker /\ mEventsQueue' = <<>>
          \/ \E p \in Producers :
                /\ ppc[p] = "emplace" /\ mQueueMutex = p
                /\ mEventsProcessing' = mEventsProcessing

\* C23: the in-flight (back) queue is accessed by the worker alone; producers
\* access the pending (front) queue alone, holding mQueueMutex; the two are
\* swapped only under mQueueMutex and only when the in-flight queue is empty,
\* so no producer touches a queue the worker is draining.
C23_BackQueueIsTheWorkers == []QueuesGuarded /\ [][QueuesTouchedByOwner]_vars

\* a producer is emplacing into the pending queue while the worker runs a job
\* of the in-flight queue, an earlier job having been run and popped
C23_Witness ==
    /\ wpc = "running"
    /\ \E p \in Producers : ppc[p] = "emplace" /\ mQueueMutex = p
    /\ finished # {}

(* ================================================================== *)
(* Properties of the frame count of drawFramesSync                      *)
(* ================================================================== *)
\* callbacks handled for a drawFramesSync call
HandledIn(call) == Cardinality({i \in 1..Len(handled) : handled[i][1] = call})

Occurrences(q, frame) == Cardinality({i \in 1..Len(q) : q[i].frame = frame})

\* jobs of a frame anywhere in the pipeline, a finished draw job included
JobsOf(frame) ==
    Occurrences(drawQ, frame) + Occurrences(drawBusy, frame)
    + (IF frame \in drawDone THEN 1 ELSE 0)
    + Occurrences(stageQ[0], frame) + Occurrences(stageBusy[0], frame)
    + Occurrences(stageQ[1], frame) + Occurrences(stageBusy[1], frame)
    + Occurrences(stageQ[2], frame) + Occurrences(stageBusy[2], frame)

\* the counter gates the posting: it never goes below 0, at most one callback
\* is pending, none once the counter is 0 after a callback of the call, and
\* every handled callback has exactly one job in the pipeline
CounterGatesPosting ==
    /\ framesRemaining_ >= 0
    /\ posted \in {0, 1}
    /\ \A t \in AppThreads :
          (apc[t] \in {"poll", "stats"} /\ HandledIn(acall[t]) > 0) =>
              (posted = 1 <=> framesRemaining_ > 0)
    /\ \A i \in 1..Len(handled) : JobsOf(handled[i]) = 1

\* the threads whose drawFramesSync call has left its polling loop
Returning == {t \in AppThreads : apc[t] = "stats"}

\* C24 as stated: for every call drawFramesSync(frames) with frames >= 0,
\* exactly `frames` callbacks are handled during the call, each producing
\* exactly one draw job; framesRemaining_ never goes below 0 and no callback
\* is posted once it has reached 0.
C24_ExactlyFramesCallbacks ==
    /\ CounterGatesPosting
    /\ \A t \in Returning : HandledIn(acall[t]) = aframes[t]

\* C24, amended: a call with frames >= 1 handles exactly `frames` callbacks
\* and a call with frames = 0 handles exactly one (the one drawFramesSync
\* itself posts), each producing exactly one draw job; framesRemaining_ never
\* goes below 0 and no callback posts another once it has reached 0.
C24_FramesOrOneCallback ==
    /\ CounterGatesPosting
    /\ \A t \in Returning :
          HandledIn(acall[t]) = (IF aframes[t] = 0 THEN 1 ELSE aframes[t])
    /\ \A t \in AppThreads :
          apc[t] = "poll" => HandledIn(acall[t]) <= MaxOf(aframes[t], 1)

\* a call for two frames has left its loop with both callbacks handled
C24_Witness ==
    \E t \in Returning : aframes[t] = 2 /\ HandledIn(acall[t]) = 2 /\ acall[t] = 2

(* ================================================================== *)
(* Properties of the framesDone_ promise                                *)
(* ================================================================== *)
\* the promises that this step fulfils
FulfilledNow == {c \in 0..MaxCalls : promiseState[c] # "set" /\ promiseState'[c] = "set"}

\* a promise is fulfilled by the draw job of the last frame of its own call,
\* the draw jobs of the call's earlier frames having completed
FulfilledByOwnLastFrame ==
    \A c \in FulfilledNow :
        /\ drawBusy' # <<>>
        /\ drawBusy'[1].remain = 0
        /\ drawBusy'[1].frame[1] = c
        /\ \A k \in 1..(drawBusy'[1].frame[2] - 1) : <<c, k>> \in drawDone

\* no second set_value, and a call leaves its loop on a fulfilled promise
FulfilledOnce ==
    /\ ~crashed
    /\ \A t \in AppThreads : apc[t] = "stats" => promiseState[acall[t]] = "set"

\* C25: in every drawFramesSync call the framesDone_ promise is fulfilled
\* exactly once, by the draw job of the last frame of that call and after the
\* draw jobs of all earlier frames of the call have completed; a draw job
\* never fulfils the promise of a different drawFramesSync call.
C25_PromiseFulfilledOnceByOwnCall == []FulfilledOnce /\ [][FulfilledByOwnLastFrame]_vars

\* C26: each task handed to an EventLoop is executed at most once: it is
\* started once, it is out of the in-flight queue once it has run and been
\* popped, and no later swap brings it back, however queueWork calls and the
\* worker interleave.
C26_TaskRunsAtMostOnce ==
    /\ \A i, j \in 1..Len(started) : started[i] = started[j] => i = j
    /\ \A job \in finished :
          /\ job \notin SeqToSet(mEventsQueue)
          /\ job \in SeqToSet(mEventsProcessing) =>
                 (wpc = "pop" /\ Head(mEventsProcessing) = job)
    /\ \A job \in SeqToSet(started) : job \notin SeqToSet(mEventsQueue)

\* every task has run, the last of them after a later swap than the first
C26_Witness ==
    /\ Len(started) = MaxTasks
    /\ finished = 1..MaxTasks
    /\ mEventsProcessing = <<>>
    /\ mEventsQueue = <<>>


(* ================================================================== *)
(* Properties of the physics iteration count in calibrate               *)
(* ================================================================== *)
\* a pass of calibrate's while loop whose if (fixedHeads) block ran
PhysicsAdjusted ==
    /\ mainPc = "calibrate"
    /\ calibrateIter' = calibrateIter + 1
    /\ fixedHeads'

\* what the pass did to the physics iteration count, by where the duration
\* it measured lies against the tolerance band
PhysicsFollowsBand ==
    /\ duration' > DurationMax(interval0) =>
          /\ physicsIter' <= physicsIter - 1
          /\ physicsIter' <= (Goal(interval0) * physicsIter) \div duration'
    /\ duration' < DurationMin(interval0) => physicsIter' >= physicsIter + 3
    /\ (duration' >= DurationMin(interval0) /\ duration' <= DurationMax(interval0)) =>
          physicsIter' = physicsIter

\* the count is never negative, and at 0 with the heads fixed the loop is left
PhysicsNonNegative ==
    /\ physicsIter >= 0
    /\ physicsIterations_ >= 0
    /\ (mainPc = "calibrate" /\ calibrateIter > 0 /\ physicsIter = 0) =>
          (fixedHeads /\ ~LoopCondition)

C28_ClosedSessionNotUsed ==
    handleClosed =>
        /\ ~isHintSessionRunning(hintSession_)
        /\ closedHandleCalls = {}


(* ================================================================== *)
(* Properties of the per-callback vectors of a batch                    *)
(* ================================================================== *)
\* selectedVsync[i] is one of the candidates of vsyncs[i], for every i both have
SelectedFromOwnCallback ==
    \A i \in 1..Len(batchData_.selectedVsync) :
        /\ i <= Len(batchData_.vsyncs)
        /\ \E k \in 1..Len(batchData_.vsyncs[i].vsyncs) :
              batchData_.selectedVsync[i] = batchData_.vsyncs[i].vsyncs[k]

\* between callbacks, and so whenever getFrameStats reads the batch, the two
\* vectors have the same length; the bounds of the claim follow
VectorsAligned ==
    /\ Len(batchData_.selectedVsync) <= Len(batchData_.vsyncs)
    /\ Len(batchData_.vsyncs) <= Len(batchData_.selectedVsync) + 1
    /\ (\E t \in AppThreads : apc[t] = "stats") =>
          Len(batchData_.vsyncs) = Len(batchData_.selectedVsync)
    /\ SelectedFromOwnCallback

\* a handled callback appends one entry to each vector, and nothing else
\* than the reset at the start of a batch changes them
OneEntryPerCallback ==
    /\ handled' # handled =>
          /\ Len(batchData_'.vsyncs) = Len(batchData_.vsyncs) + 1
          /\ Len(batchData_'.selectedVsync) = Len(batchData_.selectedVsync) + 1
          /\ SubSeq(batchData_'.vsyncs, 1, Len(batchData_.vsyncs)) = batchData_.vsyncs
          /\ SubSeq(batchData_'.selectedVsync, 1, Len(batchData_.selectedVsync))
                = batchData_.selectedVsync
    /\ handled' = handled =>
          \/ /\ batchData_'.vsyncs = batchData_.vsyncs
             /\ batchData_'.selectedVsync = batchData_.selectedVsync
          \/ batchData_' = EmptyBatch

\* C29: whenever getFrameStats reads a batch, vsyncs and selectedVsync have
\* the same length and selectedVsync[i] is a candidate of vsyncs[i]; at all
\* times selectedVsync.size() <= vsyncs.size() <= selectedVsync.size() + 1;
\* every handled callback appends exactly one entry to each.
C29_VsyncVectorsAligned ==
    /\ []VectorsAligned
    /\ [][OneEntryPerCallback]_vars

\* the statistics of a batch of two callbacks are about to be read, and one
\* callback chose its second candidate
C29_Witness ==
    /\ \E t \in AppThreads : apc[t] = "stats"
    /\ Len(batchData_.vsyncs) >= 2
    /\ Len(batchData_.selectedVsync) = Len(batchData_.vsyncs)
    /\ \E i \in 1..Len(batchData_.selectedVsync) :
          /\ Len(batchData_.vsyncs[i].vsyncs) = 2
          /\ batchData_.selectedVsync[i] = batchData_.vsyncs[i].vsyncs[2]
          /\ batchData_.selectedVsync[i] # batchData_.vsyncs[i].vsyncs[1]


(* ================================================================== *)
(* Properties of getMedian                                              *)
(* ================================================================== *)
\* v is what stands at index floor(n / 2), counted from 0, once values is put
\* in ascending order: it is one of the values, at most floor(n / 2) values
\* are smaller and more than floor(n / 2) are not greater
IsUpperMedian(v, values) ==
    LET n == Len(values)
    IN  /\ \E i \in 1..n : values[i] = v
        /\ Cardinality({i \in 1..n : values[i] < v}) <= n \div 2
        /\ Cardinality({i \in 1..n : values[i] <= v}) >= (n \div 2) + 1

\* C30: getMedian returns the element at index floor(n / 2) of the ascending
\* sort of its input (the upper middle one for an even n), which is a member
\* of the input, and leaves the caller's sequence as it was; medianWorkDuration
\* and medianFrameInterval of getFrameStats are that value for the batch's
\* durations and intervals.
C30_MedianIsUpperMiddle ==
    lastStats # <<>> =>
        LET call == lastStats[1]
            durations == call.batchData.durations
            intervals == call.batchData.intervals
        IN  /\ durations # <<>> =>
                  /\ call.stats.medianWorkDuration # <<>>
                  /\ call.stats.medianWorkDuration[1] = getMedian(durations)
                  /\ IsUpperMedian(call.stats.medianWorkDuration[1], durations)
            /\ intervals # <<>> =>
                  /\ call.stats.medianFrameInterval # <<>>
                  /\ call.stats.medianFrameInterval[1] = getMedian(intervals)
                  /\ IsUpperMedian(call.stats.medianFrameInterval[1], intervals)
            /\ call.batchAfter = call.batchData

\* a batch of two unsorted durations: the median is the larger one, and the
\* median interval is another value
C30_Witness ==
    /\ lastStats # <<>>
    /\ Len(lastStats[1].batchData.durations) = 2
    /\ lastStats[1].batchData.durations[1] > lastStats[1].batchData.durations[2]
    /\ lastStats[1].stats.medianWorkDuration = <<lastStats[1].batchData.durations[1]>>
    /\ lastStats[1].batchAfter.durations[1] > lastStats[1].batchAfter.durations[2]
    /\ lastStats[1].stats.medianFrameInterval # <<>>
    /\ lastStats[1].stats.medianFrameInterval # lastStats[1].stats.medianWorkDuration
====
